---- MODULE Spec2Model ----
(***************************************************************************)
(* State-machine model of the meeting manager's module registry            *)
(* (apps/registry), of the principal's position checks (apps/core/models), *)
(* of the meeting-format content scheduling (apps/meeting_format), of the  *)
(* service positions and their assignments (apps/positions), of the        *)
(* treasury (apps/treasurer) and of the setup wizard (apps/core/views).    *)
(***************************************************************************)
EXTENDS Integers, Sequences, FiniteSets, TLC

VARIABLES
    moduleApps,     \* settings.MEETING_MODULES: the candidate sources, in order
    modules,        \* ModuleRegistry._modules: the catalog, in insertion order
    initialized,    \* ModuleRegistry._initialized
    scans,          \* how many times autodiscover iterated the candidate list
    registerLog,    \* module names whose on_register hook ran, in call order
    readyLog,       \* module names whose on_ready hook ran, in call order
    errorLog,       \* indices of the candidates logged at error level
    blocks,         \* FormatBlock rows
    variations,     \* BlockVariation rows
    schedules,      \* VariationSchedule rows
    nextPk,         \* next primary key of a BlockVariation row
    meetingTypes,   \* MeetingType rows
    formatConfig,   \* the meeting's FormatModuleConfig row
    servicePositions,     \* ServicePosition rows
    positionAssignments,  \* PositionAssignment rows
    pendingAssignment,    \* session['pending_assignment'] of the managing user
    treasurerSettings,    \* the meeting's TreasurerSettings row
    treasurerRecords,     \* TreasurerRecord rows
    saving,         \* per request: where it is in BlockVariation.save()
    session,        \* per browser session: its setup-wizard keys
    meetingConfig,  \* the MeetingConfig singleton
    call            \* the last operation called, its arguments and its outcome

vars == <<moduleApps, modules, initialized, scans, registerLog, readyLog,
          errorLog, blocks, variations, schedules, nextPk, meetingTypes,
          formatConfig, servicePositions, positionAssignments,
          pendingAssignment, treasurerSettings, treasurerRecords, saving,
          session, meetingConfig, call>>

registryVars == <<moduleApps, modules, initialized, scans, registerLog,
                  readyLog, errorLog>>

formatVars == <<blocks, variations, schedules, nextPk, meetingTypes,
               formatConfig>>

typeVars == <<meetingTypes, formatConfig>>

positionVars == <<servicePositions, positionAssignments, pendingAssignment>>

treasuryVars == <<treasurerSettings, treasurerRecords>>

wizardVars == <<session, meetingConfig>>

siteVars == <<positionVars, treasuryVars, wizardVars, saving>>

(***************************************************************************)
(* Bounds of the model.                                                    *)
(***************************************************************************)
MaxApps == 2          \* length of settings.MEETING_MODULES
MaxVariations == 2    \* BlockVariation rows ever created
MaxSchedules == 2     \* VariationSchedule rows stored at a time

(***************************************************************************)
(* Helpers on sequences.                                                   *)
(***************************************************************************)
Range(s) == {s[i] : i \in 1..Len(s)}

SeqsUpTo(S, n) == UNION {[1..k -> S] : k \in 0..n}

\* Python's sorted(xs, key=...): stable and ascending.  StableOrder(keys) is
\* the order in which the positions 1..Len(keys) come out of the sort.
RECURSIVE InsertPos(_, _, _)
InsertPos(perm, i, keys) ==
    IF perm = <<>> THEN <<i>>
    ELSE IF keys[i] < keys[Head(perm)] THEN <<i>> \o perm
    ELSE <<Head(perm)>> \o InsertPos(Tail(perm), i, keys)

RECURSIVE StableOrderUpTo(_, _)
StableOrderUpTo(keys, n) ==
    IF n = 0 THEN <<>>
    ELSE InsertPos(StableOrderUpTo(keys, n - 1), n, keys)

StableOrder(keys) == StableOrderUpTo(keys, Len(keys))

(***************************************************************************)
(* Principals: apps/core/models.py, class User.                            *)
(***************************************************************************)
PositionNames == {"treasurer", "secretary"}

\* One PositionAssignment row of a user: the position's name and whether the
\* row's end_date is NULL (the position is currently held).
AssignmentRows ==
    {[position |-> "treasurer", end_date_isnull |-> TRUE],
     [position |-> "secretary", end_date_isnull |-> FALSE]}

\* A user: the is_superuser flag, the position_assignments rows and the legacy
\* many-to-many `positions` relation.
Users ==
    {[is_superuser |-> su, position_assignments |-> pa, positions |-> lg] :
        su \in BOOLEAN, pa \in SUBSET AssignmentRows,
        lg \in {{}, {"secretary"}}}

\* User.has_any_position(position_names)
has_any_position(user, position_names) ==
    IF \E a \in user.position_assignments :
           a.position \in position_names /\ a.end_date_isnull
    THEN TRUE
    ELSE user.positions \cap position_names # {}

(***************************************************************************)
(* Module declarations: apps/registry/base_module.py.                      *)
(***************************************************************************)
\* ModuleConfig(name=..., order=..., required_positions=..., ...)
ModuleConfig(name, order, is_enabled, required_positions, read_positions) ==
    [name |-> name, order |-> order, is_enabled |-> is_enabled,
     required_positions |-> required_positions,
     read_positions |-> read_positions]

\* get_settings_sections of the declared modules: one section named after the
\* module, ordered like it; business_meeting keeps BaseModule's empty list.
SettingsSectionsOf(name, order) ==
    IF name = "business_meeting" THEN <<>>
    ELSE <<[name |-> name, order |-> order]>>

\* config.nav_items of the modules: the one NavItem each module declares,
\* with the order it declares; the model's treasurer module has a second
\* item that sorts after every other module's.
NavItemsOf(name) ==
    CASE name = "treasurer" ->
            <<[label |-> "Treasury", order |-> 30],
              [label |-> "Reports", order |-> 50]>>
      [] name = "readings" -> <<[label |-> "Readings", order |-> 35]>>
      [] name = "business_meeting" -> <<[label |-> "Business", order |-> 45]>>
      [] OTHER -> <<>>

\* A module class: the config its instances return, the navigation items and
\* settings sections it contributes and whether its on_register override
\* raises.
ModuleClass(config, reg_raises) ==
    [config |-> config,
     nav_items |-> NavItemsOf(config.name),
     settings_sections |-> SettingsSectionsOf(config.name, config.order),
     on_register_raises |-> reg_raises]

\* BaseModule.check_access(user)
check_access(module, user) ==
    IF module.config.read_positions = {} THEN TRUE
    ELSE has_any_position(user, module.config.read_positions)

\* BaseModule.check_write_access(user)
check_write_access(module, user) ==
    IF module.config.required_positions = {} THEN TRUE
    ELSE has_any_position(user, module.config.required_positions)

\* BusinessMeetingModule.config, as apps/business_meeting/module.py declares it.
BusinessMeetingModule ==
    ModuleClass(ModuleConfig("business_meeting", 45, TRUE,
                             {"secretary", "group_rep"}, {}), FALSE)

\* Module classes of the access model: BusinessMeetingModule as declared; a
\* readings module under both orders and read lists; a treasurer module under
\* every combination of order, enabled flag and read / write position lists.
\* Their hooks are BaseModule's no-ops.
AccessClasses ==
    {ModuleClass(ModuleConfig("treasurer", o, e, rq, rd), FALSE) :
        o \in {30, 35}, e \in BOOLEAN,
        rq \in {{}, {"treasurer"}}, rd \in {{}, {"secretary"}}}
    \cup {ModuleClass(ModuleConfig("readings", o, TRUE,
                                   {"secretary", "group_rep"}, rd),
                      FALSE) :
              o \in {30, 35}, rd \in {{}, {"secretary"}}}
    \cup {BusinessMeetingModule}

\* The names of the model's modules, and one that is never registered.
ModuleNames == {"treasurer", "readings", "business_meeting", "website"}

\* Module classes of the discovery model: the default position lists, and an
\* on_register hook that is BaseModule's no-op or raises.
DiscoveryClasses ==
    {ModuleClass(ModuleConfig(n, 30, TRUE, {}, {}), r) :
        n \in {"treasurer", "readings"}, r \in BOOLEAN}

\* What importing "<app>.module" and scanning it for a BaseModule subclass
\* can do: ImportError, another exception, no subclass found, or a class.
Sources ==
    {[kind |-> "absent"], [kind |-> "error"], [kind |-> "nodecl"]}
    \cup {[kind |-> "module", class |-> c] : c \in DiscoveryClasses}

(***************************************************************************)
(* The registry: apps/registry/module_registry.py.                         *)
(***************************************************************************)
\* `name in self._modules`
InCatalog(mods, name) == \E i \in 1..Len(mods) : mods[i].config.name = name

\* self._modules.get(name)
get_module(mods, name) ==
    IF InCatalog(mods, name)
    THEN (CHOOSE i \in 1..Len(mods) : mods[i].config.name = name)
    ELSE 0

\* register with the duplicate check lost: the entry is replaced and the
\* hook runs again.
register_overwrite(mods, rlog, module_class) ==
    LET module == module_class
        name == module.config.name
    IN  IF InCatalog(mods, name)
        THEN [modules |-> [mods EXCEPT ![get_module(mods, name)] = module],
              registerLog |-> Append(rlog, name), warned |-> TRUE,
              raised |-> module.on_register_raises]
        ELSE [modules |-> Append(mods, module),
              registerLog |-> Append(rlog, name), warned |-> FALSE,
              raised |-> module.on_register_raises]

\* register that runs the hook before the duplicate check: a duplicate's hook
\* runs too.
register_hook_first(mods, rlog, module_class) ==
    LET module == module_class
        name == module.config.name
    IN  IF InCatalog(mods, name)
        THEN [modules |-> mods, registerLog |-> Append(rlog, name),
              warned |-> TRUE, raised |-> module.on_register_raises]
        ELSE [modules |-> Append(mods, module),
              registerLog |-> Append(rlog, name), warned |-> FALSE,
              raised |-> module.on_register_raises]

\* ModuleRegistry.register(module_class), on the catalog and the on_register
\* log: the new catalog, the new log, whether the duplicate warning was
\* logged and whether the call raised.
register(mods, rlog, module_class) ==
    LET module == module_class
        name == module.config.name
    IN  IF InCatalog(mods, name)
        THEN [modules |-> mods, registerLog |-> rlog, warned |-> TRUE,
              raised |-> FALSE]
        ELSE [modules |-> Append(mods, module),
              registerLog |-> Append(rlog, name), warned |-> FALSE,
              raised |-> module.on_register_raises]

\* The body of autodiscover's `for app_name in module_apps` loop for the
\* candidate at index i: import, find the class, register; ImportError is
\* logged at debug level, any other Exception at error level.
load_app(st, apps, i) ==
    LET src == apps[i] IN
    CASE src.kind = "absent" -> st
      [] src.kind = "error"  -> [st EXCEPT !.errorLog = Append(@, i)]
      [] src.kind = "nodecl" -> st
      [] src.kind = "module" ->
            LET r == register(st.modules, st.registerLog, src.class) IN
            [modules |-> r.modules, registerLog |-> r.registerLog,
             errorLog |-> IF r.raised THEN Append(st.errorLog, i)
                          ELSE st.errorLog]

\* The loop with the `except Exception` handler outside it: the first
\* candidate logged at error level ends the scan.
RECURSIVE scan_apps_abort(_, _, _)
scan_apps_abort(st, apps, i) ==
    IF i > Len(apps) THEN st
    ELSE LET nxt == load_app(st, apps, i) IN
         IF nxt.errorLog # st.errorLog THEN nxt
         ELSE scan_apps_abort(nxt, apps, i + 1)

\* The whole loop over settings.MEETING_MODULES, from index i on.
RECURSIVE scan_apps(_, _, _)
scan_apps(st, apps, i) ==
    IF i > Len(apps) THEN st
    ELSE scan_apps(load_app(st, apps, i), apps, i + 1)

\* `for module in self._modules.values(): module.on_ready()`: the names whose
\* hook ran, in the catalog's insertion order.
ready_calls(mods) == [i \in 1..Len(mods) |-> mods[i].config.name]

\* ModuleRegistry.autodiscover() on the registry's state.
autodiscover(reg, apps) ==
    IF reg.initialized THEN reg
    ELSE LET st == scan_apps([modules |-> reg.modules,
                              registerLog |-> reg.registerLog,
                              errorLog |-> reg.errorLog], apps, 1)
         IN  [modules |-> st.modules,
              initialized |-> TRUE,
              scans |-> reg.scans + 1,
              registerLog |-> st.registerLog,
              readyLog |-> reg.readyLog \o ready_calls(st.modules),
              errorLog |-> st.errorLog]

\* get_modules_for_user with a sort that is not stable: modules of equal
\* order come out last-registered first.
get_modules_for_user_unstable(mods, user) ==
    LET accessible == SelectSeq(mods,
            LAMBDA m : m.config.is_enabled /\ check_access(m, user))
        perm == StableOrder([i \in 1..Len(accessible) |->
                                 accessible[i].config.order * 100
                                     + (Len(accessible) - i)])
    IN  [i \in 1..Len(accessible) |-> accessible[perm[i]]]

\* ModuleRegistry.get_modules_for_user(user)
get_modules_for_user(mods, user) ==
    LET accessible == SelectSeq(mods,
            LAMBDA m : m.config.is_enabled /\ check_access(m, user))
        perm == StableOrder([i \in 1..Len(accessible) |->
                                 accessible[i].config.order])
    IN  [i \in 1..Len(accessible) |-> accessible[perm[i]]]

\* The dicts get_navigation_for_user appends for one module.
module_nav(module) ==
    [k \in 1..Len(module.nav_items) |->
        [module |-> module.config.name,
         label |-> module.nav_items[k].label,
         order |-> module.nav_items[k].order]]

\* The loop of get_navigation_for_user over the accessible modules.
RECURSIVE collect_nav(_, _)
collect_nav(ms, i) ==
    IF i > Len(ms) THEN <<>>
    ELSE module_nav(ms[i]) \o collect_nav(ms, i + 1)

\* get_navigation_for_user without its final sort: the items stay grouped by
\* module.
get_navigation_for_user_unsorted(mods, user) ==
    collect_nav(get_modules_for_user(mods, user), 1)

\* ModuleRegistry.get_navigation_for_user(request)
get_navigation_for_user(mods, user) ==
    LET nav_items == collect_nav(get_modules_for_user(mods, user), 1)
        perm == StableOrder([i \in 1..Len(nav_items) |-> nav_items[i].order])
    IN  [i \in 1..Len(nav_items) |-> nav_items[perm[i]]]

\* The section dicts one module contributes to the settings page.
module_sections(module) ==
    [k \in 1..Len(module.settings_sections) |->
        [module_name |-> module.config.name,
         name |-> module.settings_sections[k].name,
         order |-> module.settings_sections[k].order]]

\* The loop of get_settings_sections_for_user over the accessible modules.
RECURSIVE collect_sections(_, _, _)
collect_sections(ms, user, i) ==
    IF i > Len(ms) THEN <<>>
    ELSE IF ~check_write_access(ms[i], user)
         THEN collect_sections(ms, user, i + 1)
         ELSE module_sections(ms[i]) \o collect_sections(ms, user, i + 1)

\* ModuleRegistry.get_settings_sections_for_user(request)
get_settings_sections_for_user(mods, user) ==
    LET sections == collect_sections(get_modules_for_user(mods, user), user, 1)
        perm == StableOrder([i \in 1..Len(sections) |-> sections[i].order])
    IN  [i \in 1..Len(sections) |-> sections[perm[i]]]

(***************************************************************************)
(* Calendar dates: datetime.date as apps/meeting_format/services.py uses   *)
(* it (date.weekday(), date.day, equality).                                *)
(***************************************************************************)
Date(y, m, d) == [year |-> y, month |-> m, day |-> d]

is_leap(y) == y % 4 = 0 /\ (y % 100 # 0 \/ y % 400 = 0)

days_in_month(y, m) ==
    IF m = 2 THEN (IF is_leap(y) THEN 29 ELSE 28)
    ELSE IF m \in {4, 6, 9, 11} THEN 30 ELSE 31

\* Days in the years before year y, counted from 0001-01-01.
days_before_year(y) ==
    (y - 1) * 365 + ((y - 1) \div 4) - ((y - 1) \div 100) + ((y - 1) \div 400)

RECURSIVE days_before_month(_, _)
days_before_month(y, m) ==
    IF m = 1 THEN 0
    ELSE days_before_month(y, m - 1) + days_in_month(y, m - 1)

\* date.toordinal(): 0001-01-01 is day 1.
toordinal(dt) ==
    days_before_year(dt.year) + days_before_month(dt.year, dt.month) + dt.day

\* date.weekday(): Monday is 0, Sunday is 6.
weekday(dt) == (toordinal(dt) + 6) % 7

(***************************************************************************)
(* Content scheduling: apps/meeting_format/services.py, FormatService.     *)
(***************************************************************************)
\* The database NULL in the integer columns occurrence and weekday.
NULL == -1

\* The database NULL in the specific_date column.
NullDate == Date(0, 0, 0)

\* _is_nth_weekday with the occurrence counted from day 0 instead of day 1.
is_nth_weekday_from_zero(check_date, n, wd) ==
    IF weekday(check_date) # wd THEN FALSE
    ELSE (check_date.day \div 7) + 1 = n

\* FormatService._is_nth_weekday(check_date, n, weekday)
is_nth_weekday(check_date, n, wd) ==
    IF weekday(check_date) # wd THEN FALSE
    ELSE LET day == check_date.day
             occurrence == ((day - 1) \div 7) + 1
         IN  occurrence = n

\* One pass of the loop of _matches_schedule: does this rule match the date?
rule_matches(schedule, check_date) ==
    CASE schedule.schedule_type = "weekday_occurrence" ->
            is_nth_weekday(check_date, schedule.occurrence, schedule.weekday)
      [] schedule.schedule_type = "day_of_week" ->
            weekday(check_date) = schedule.weekday
      [] schedule.schedule_type = "specific_date" ->
            check_date = schedule.specific_date
      [] OTHER -> FALSE

\* FormatService._matches_schedule(variation, check_date) over the stored rows
matches_schedule(rows, variation, check_date) ==
    \E s \in rows : s.variation = variation.pk /\ rule_matches(s, check_date)

\* QuerySet.first() under Meta.ordering = ['order']: the row of lowest order,
\* or nothing.  Rows of equal order come in an order the database chooses.
first_by_order(rows) ==
    IF rows = {} THEN {}
    ELSE {CHOOSE v \in rows : \A u \in rows : v.order <= u.order}

\* get_active_variation that consults the default before the schedules.
get_active_variation_default_first(vs, rows, block, for_date) ==
    LET active == {v \in vs : v.block = block /\ v.is_active}
        default == first_by_order({v \in active : v.is_default})
        matching == {v \in active : matches_schedule(rows, v, for_date)}
    IN  IF default # {} THEN default
        ELSE IF matching # {} THEN first_by_order(matching)
        ELSE first_by_order(active)

\* get_active_variation whose fallbacks forget the is_active filter.
get_active_variation_any_fallback(vs, rows, block, for_date) ==
    LET active == {v \in vs : v.block = block /\ v.is_active}
        matching == {v \in active : matches_schedule(rows, v, for_date)}
        default == first_by_order({v \in vs : v.block = block /\ v.is_default})
    IN  IF matching # {} THEN first_by_order(matching)
        ELSE IF default # {} THEN default
        ELSE first_by_order({v \in vs : v.block = block})

\* get_active_variation whose default fallback forgets the is_active filter.
get_active_variation_inactive_default(vs, rows, block, for_date) ==
    LET active == {v \in vs : v.block = block /\ v.is_active}
        matching == {v \in active : matches_schedule(rows, v, for_date)}
        default == first_by_order({v \in vs : v.block = block /\ v.is_default})
    IN  IF matching # {} THEN first_by_order(matching)
        ELSE IF default # {} THEN default
        ELSE first_by_order(active)

\* FormatService.get_active_variation(block, for_date): the set holding the
\* returned variation, or the empty set for None.
get_active_variation(vs, rows, block, for_date) ==
    LET active == {v \in vs : v.block = block /\ v.is_active}
        matching == {v \in active : matches_schedule(rows, v, for_date)}
        default == first_by_order({v \in active : v.is_default})
    IN  IF matching # {} THEN first_by_order(matching)
        ELSE IF default # {} THEN default
        ELSE first_by_order(active)

(***************************************************************************)
(* Variations and schedules: apps/meeting_format/models.py, views.py and   *)
(* forms.py.                                                               *)
(***************************************************************************)
\* The FormatBlock rows of the meeting: two active blocks.
BlockRows ==
    {[pk |-> 1, order |-> 1, is_active |-> TRUE],
     [pk |-> 2, order |-> 2, is_active |-> TRUE]}

\* The MeetingType rows of the meeting: two active types.
MeetingTypeRows ==
    {[pk |-> 1, is_active |-> TRUE], [pk |-> 2, is_active |-> TRUE]}

\* The meeting's FormatModuleConfig row: the format is published and no
\* meeting type is selected.
FormatModuleConfig ==
    [public_enabled |-> TRUE, selected_meeting_type |-> NULL]

\* save() without the update that unsets the block's other defaults.
save_keep_others(vs, self) ==
    LET others == {v \in vs : v.pk # self.pk}
        has_default == \E v \in others : v.block = self.block /\ v.is_default
        saved == IF ~has_default THEN [self EXCEPT !.is_default = TRUE]
                 ELSE self
    IN  others \cup {saved}

\* save() without the promotion of the saved row when the block has no other
\* default.
save_without_promotion(vs, self) ==
    LET others == {v \in vs : v.pk # self.pk}
        unset == IF self.is_default
                 THEN {IF v.block = self.block /\ v.is_default
                       THEN [v EXCEPT !.is_default = FALSE] ELSE v :
                           v \in others}
                 ELSE others
    IN  unset \cup {self}

\* BlockVariation.save(): the rows of the table after saving `self`.
save(vs, self) ==
    LET others == {v \in vs : v.pk # self.pk}
        unset == IF self.is_default
                 THEN {IF v.block = self.block /\ v.is_default
                       THEN [v EXCEPT !.is_default = FALSE] ELSE v :
                           v \in others}
                 ELSE others
        has_default == \E v \in unset : v.block = self.block /\ v.is_default
        saved == IF ~has_default THEN [self EXCEPT !.is_default = TRUE]
                 ELSE self
    IN  unset \cup {saved}

\* aggregate(Max('order'))['max_order'] or 0
max_order(rows) ==
    IF rows = {} THEN 0
    ELSE (CHOOSE v \in rows : \A u \in rows : u.order <= v.order).order

\* VariationCreateView.form_valid: a new variation of `block` from the form's
\* meeting_type, is_default and is_active, ordered last, default when it is
\* the first.
VariationCreate(block, meeting_type, is_default, is_active) ==
    LET in_block == {v \in variations : v.block = block}
        instance == [pk |-> nextPk, block |-> block,
                     meeting_type |-> meeting_type,
                     order |-> max_order(in_block) + 1,
                     is_default |-> IF in_block = {} THEN TRUE ELSE is_default,
                     is_active |-> is_active]
    IN  /\ nextPk <= MaxVariations
        /\ \E b \in blocks : b.pk = block
        /\ variations' = save(variations, instance)
        /\ nextPk' = nextPk + 1
        /\ call' = [op |-> "variation_create", pk |-> nextPk,
                    block |-> block, is_default |-> instance.is_default]
        /\ UNCHANGED <<siteVars, registryVars, typeVars, blocks, schedules>>

\* VariationUpdateView: meeting_type, is_default and is_active from the form,
\* then save().
VariationUpdate(v, meeting_type, is_default, is_active) ==
    /\ v \in variations
    /\ variations' = save(variations, [v EXCEPT !.meeting_type = meeting_type,
                                                !.is_default = is_default,
                                                !.is_active = is_active])
    /\ call' = [op |-> "variation_update", pk |-> v.pk, block |-> v.block,
                is_default |-> is_default]
    /\ UNCHANGED <<siteVars, registryVars, typeVars, blocks, schedules, nextPk>>

\* VariationDeleteView: the row and, by cascade, its schedule rows.
VariationDelete(v) ==
    /\ v \in variations
    /\ variations' = variations \ {v}
    /\ schedules' = {s \in schedules : s.variation # v.pk}
    /\ call' = [op |-> "variation_delete", pk |-> v.pk]
    /\ UNCHANGED <<siteVars, registryVars, typeVars, blocks, nextPk>>

\* What a schedule form can submit: each kind complete, and each kind with a
\* required field left empty.
ScheduleForms ==
    {[schedule_type |-> "weekday_occurrence", occurrence |-> 3, weekday |-> 1,
      specific_date |-> NullDate],
     [schedule_type |-> "weekday_occurrence", occurrence |-> NULL,
      weekday |-> 1, specific_date |-> NullDate],
     [schedule_type |-> "weekday_occurrence", occurrence |-> 3,
      weekday |-> NULL, specific_date |-> NullDate],
     [schedule_type |-> "day_of_week", occurrence |-> NULL, weekday |-> 2,
      specific_date |-> NullDate],
     [schedule_type |-> "day_of_week", occurrence |-> NULL, weekday |-> NULL,
      specific_date |-> NullDate],
     [schedule_type |-> "specific_date", occurrence |-> NULL,
      weekday |-> NULL, specific_date |-> Date(2025, 1, 21)],
     [schedule_type |-> "specific_date", occurrence |-> NULL,
      weekday |-> NULL, specific_date |-> NullDate]}

\* clean() that checks the occurrence of a weekday_occurrence rule only.
clean_errors_occurrence_only(form) ==
    IF form.schedule_type = "weekday_occurrence" /\ form.occurrence = NULL
    THEN {"occurrence"} ELSE {}

\* VariationScheduleForm.clean(): the fields it adds an error to.
clean_errors(form) ==
    CASE form.schedule_type = "weekday_occurrence" ->
            (IF form.occurrence = NULL THEN {"occurrence"} ELSE {})
            \cup (IF form.weekday = NULL THEN {"weekday"} ELSE {})
      [] form.schedule_type = "day_of_week" ->
            (IF form.weekday = NULL THEN {"weekday"} ELSE {})
      [] form.schedule_type = "specific_date" ->
            (IF form.specific_date = NullDate THEN {"specific_date"} ELSE {})
      [] OTHER -> {}

\* ScheduleCreateView: a valid form is stored as a rule of the variation, an
\* invalid one is shown again and stores nothing.
ScheduleCreate(v, form) ==
    /\ v \in variations
    /\ Cardinality(schedules) < MaxSchedules
    /\ IF clean_errors(form) = {}
       THEN schedules' = schedules \cup
                {[variation |-> v.pk, schedule_type |-> form.schedule_type,
                  occurrence |-> form.occurrence, weekday |-> form.weekday,
                  specific_date |-> form.specific_date]}
       ELSE schedules' = schedules
    /\ call' = [op |-> "schedule_create", pk |-> v.pk, form |-> form,
                valid |-> clean_errors(form) = {}]
    /\ UNCHANGED <<siteVars,
                   registryVars, typeVars, blocks, variations, nextPk>>

\* ScheduleDeleteView
ScheduleDelete(s) ==
    /\ s \in schedules
    /\ schedules' = schedules \ {s}
    /\ call' = [op |-> "schedule_delete", pk |-> s.variation]
    /\ UNCHANGED <<siteVars,
                   registryVars, typeVars, blocks, variations, nextPk>>

\* The dates the format is asked for: the 3rd Tuesday and the 4th Wednesday
\* of January 2025.
FormatDates == {Date(2025, 1, 21), Date(2025, 1, 22)}

\* get_active_variation with a memo per block: a call that follows a call for
\* the same block answers what that call answered.
GetActiveVariationMemo(block, for_date) ==
    /\ \E b \in blocks : b.pk = block
    /\ call' = [op |-> "get_active_variation", block |-> block,
                for_date |-> for_date,
                result |->
                    IF call.op = "get_active_variation" /\ call.block = block
                    THEN call.result
                    ELSE get_active_variation(variations, schedules, block,
                                              for_date)]
    /\ UNCHANGED <<registryVars, formatVars, siteVars>>

\* FormatService.get_active_variation(block, for_date) called for a block.
GetActiveVariation(block, for_date) ==
    /\ \E b \in blocks : b.pk = block
    /\ call' = [op |-> "get_active_variation", block |-> block,
                for_date |-> for_date,
                result |-> get_active_variation(variations, schedules, block,
                                                for_date)]
    /\ UNCHANGED <<registryVars, formatVars, siteVars>>

\* The tables before any variation exists.
(***************************************************************************)
(* Users, service positions, treasury and setup: the rows a new site       *)
(* starts with.                                                            *)
(***************************************************************************)
\* ServicePosition rows seeded by core/migrations/0013_seed_default_positions.
ServicePositionRows ==
    {[pk |-> 1, name |-> "secretary"], [pk |-> 2, name |-> "treasurer"]}

\* User rows: two members and one administrator, none with a legacy
\* `positions` entry but the second member.
UserRows ==
    {[pk |-> 1, is_superuser |-> FALSE, positions |-> {}],
     [pk |-> 2, is_superuser |-> FALSE, positions |-> {"secretary"}],
     [pk |-> 3, is_superuser |-> TRUE, positions |-> {}]}

\* TreasurerSettings(): starting_balance defaults to Decimal('0.00'); amounts
\* are in cents.
TreasurerSettingsRow == [starting_balance |-> 0]

\* The browser sessions and the requests that run concurrently.
Sessions == {1, 2}

Requests == {1, 2}

\* A fresh session has neither 'setup_step' nor 'setup_skipped'.
NewSession == [setup_step |-> {}, setup_skipped |-> FALSE]

\* MeetingConfig.get_instance() of a new site: meeting_name defaults to
\* 'My Meeting'; setup_status is neither 'completed' nor 'dismissed'.
MeetingConfigRow == [meeting_name |-> "My Meeting", setup_status |-> "pending"]

\* No request is inside BlockVariation.save().
Idle == [pc |-> "idle"]

SiteInit ==
    /\ servicePositions = ServicePositionRows
    /\ positionAssignments = {}
    /\ pendingAssignment = {}
    /\ treasurerSettings = TreasurerSettingsRow
    /\ treasurerRecords = {}
    /\ saving = [r \in Requests |-> Idle]
    /\ session = [s \in Sessions |-> NewSession]
    /\ meetingConfig = MeetingConfigRow

FormatInit ==
    /\ blocks = BlockRows
    /\ variations = {}
    /\ schedules = {}
    /\ nextPk = 1
    /\ meetingTypes = MeetingTypeRows
    /\ formatConfig = FormatModuleConfig

(***************************************************************************)
(* Actions on the registry.                                                *)
(***************************************************************************)
Registry ==
    [modules |-> modules, initialized |-> initialized, scans |-> scans,
     registerLog |-> registerLog, readyLog |-> readyLog,
     errorLog |-> errorLog]

\* RegistryConfig.ready(): registry.autodiscover()
Autodiscover ==
    LET r == autodiscover(Registry, moduleApps) IN
    /\ modules' = r.modules
    /\ initialized' = r.initialized
    /\ scans' = r.scans
    /\ registerLog' = r.registerLog
    /\ readyLog' = r.readyLog
    /\ errorLog' = r.errorLog
    /\ call' = [op |-> "autodiscover"]
    /\ UNCHANGED <<siteVars, moduleApps, formatVars>>

\* @register_module on a class: registry.register(module_class)
RegisterModule(c) ==
    LET r == register(modules, registerLog, c) IN
    /\ modules' = r.modules
    /\ registerLog' = r.registerLog
    /\ call' = [op |-> "register", name |-> c.config.name,
                warned |-> r.warned, raised |-> r.raised]
    /\ UNCHANGED <<siteVars, moduleApps, initialized, scans, readyLog, errorLog,
                   formatVars>>

\* A request asks the registry which modules its user may see.
GetModulesForUser(u) ==
    /\ call' = [op |-> "get_modules_for_user", user |-> u,
                result |-> get_modules_for_user(modules, u)]
    /\ UNCHANGED <<registryVars, formatVars, siteVars>>

\* A request asks the registry for the settings sections of its user.
GetSettingsSectionsForUser(u) ==
    /\ call' = [op |-> "get_settings_sections_for_user", user |-> u,
                result |-> get_settings_sections_for_user(modules, u)]
    /\ UNCHANGED <<registryVars, formatVars, siteVars>>

\* self._modules.get(name) as a value: the module, or nothing for None.
get_module_result(mods, name) ==
    {mods[i] : i \in {k \in 1..Len(mods) : mods[k].config.name = name}}

\* get_all_modules that returns self._modules itself instead of a copy.
get_all_modules_aliased(mods) == [is_catalog |-> TRUE, mapping |-> mods]

\* ModuleRegistry.get_all_modules(): self._modules.copy(), a new dict with
\* the same entries.  is_catalog tells whether the returned object is the
\* catalog's own dict.
get_all_modules(mods) == [is_catalog |-> FALSE, mapping |-> mods]

\* ModuleRegistry.get_enabled_modules(): a new dict of the enabled modules.
get_enabled_modules(mods) ==
    [is_catalog |-> FALSE,
     mapping |-> SelectSeq(mods, LAMBDA m : m.config.is_enabled)]

\* registry.get_module(name) is called.
GetModule(name) ==
    /\ call' = [op |-> "get_module", name |-> name,
                result |-> get_module_result(modules, name)]
    /\ UNCHANGED <<registryVars, formatVars, siteVars>>

\* registry.get_all_modules() is called.
GetAllModules ==
    /\ call' = [op |-> "get_all_modules", result |-> get_all_modules(modules)]
    /\ UNCHANGED <<registryVars, formatVars, siteVars>>

\* registry.get_enabled_modules() is called.
GetEnabledModules ==
    /\ call' = [op |-> "get_enabled_modules",
                result |-> get_enabled_modules(modules)]
    /\ UNCHANGED <<registryVars, formatVars, siteVars>>

\* The caller of get_all_modules deletes a key of the dict it was given:
\* `del mapping[name]`.  The catalog loses the entry only if the dict is the
\* catalog's own.
DeleteFromReturnedMapping(name) ==
    LET without(ms) == SelectSeq(ms, LAMBDA m : m.config.name # name) IN
    /\ call.op \in {"get_all_modules", "returned_mapping_modified"}
    /\ InCatalog(call.result.mapping, name)
    /\ call' = [op |-> "returned_mapping_modified",
                result |-> [call.result EXCEPT !.mapping = without(@)]]
    /\ modules' = IF call.result.is_catalog THEN without(modules) ELSE modules
    /\ UNCHANGED <<siteVars,
                   moduleApps, initialized, scans, registerLog, readyLog,
                   errorLog, formatVars>>

\* A request asks the registry for the navigation of its user.
GetNavigationForUser(u) ==
    /\ call' = [op |-> "get_navigation_for_user", user |-> u,
                result |-> get_navigation_for_user(modules, u)]
    /\ UNCHANGED <<registryVars, formatVars, siteVars>>

NoCall == [op |-> "none"]

\* The process before RegistryConfig.ready(): an empty catalog and any
\* configured candidate list.
Init ==
    /\ moduleApps \in SeqsUpTo(Sources, MaxApps)
    /\ modules = <<>>
    /\ initialized = FALSE
    /\ scans = 0
    /\ registerLog = <<>>
    /\ readyLog = <<>>
    /\ errorLog = <<>>
    /\ call = NoCall
    /\ FormatInit
    /\ SiteInit

Next ==
    \/ Autodiscover
    \/ \E c \in DiscoveryClasses : RegisterModule(c)

Spec == Init /\ [][Next]_vars

\* The access model: the candidate list is empty, module classes of every
\* configuration are registered, and requests query the catalog.
InitAccess ==
    /\ moduleApps = <<>>
    /\ modules = <<>>
    /\ initialized = FALSE
    /\ scans = 0
    /\ registerLog = <<>>
    /\ readyLog = <<>>
    /\ errorLog = <<>>
    /\ call = NoCall
    /\ FormatInit
    /\ SiteInit

NextAccess ==
    \/ \E c \in AccessClasses : RegisterModule(c)
    \/ \E u \in Users : GetModulesForUser(u)
    \/ \E u \in Users : GetSettingsSectionsForUser(u)
    \/ \E u \in Users : GetNavigationForUser(u)
    \/ \E n \in ModuleNames : GetModule(n)
    \/ GetAllModules
    \/ GetEnabledModules
    \/ \E n \in ModuleNames : DeleteFromReturnedMapping(n)

SpecAccess == InitAccess /\ [][NextAccess]_vars

\* The format model: an empty catalog, and the secretary's edits of the
\* variations and schedules interleaved with requests for the format.  The
\* variations are left untagged: no operation of this model reads the
\* meeting type.
InitFormat ==
    /\ moduleApps = <<>>
    /\ modules = <<>>
    /\ initialized = FALSE
    /\ scans = 0
    /\ registerLog = <<>>
    /\ readyLog = <<>>
    /\ errorLog = <<>>
    /\ call = NoCall
    /\ FormatInit
    /\ SiteInit

NextFormat ==
    \/ \E b \in {1, 2}, d \in BOOLEAN, a \in BOOLEAN :
           VariationCreate(b, NULL, d, a)
    \/ \E v \in variations, d \in BOOLEAN, a \in BOOLEAN :
           VariationUpdate(v, NULL, d, a)
    \/ \E v \in variations : VariationDelete(v)
    \/ \E v \in variations, f \in ScheduleForms : ScheduleCreate(v, f)
    \/ \E s \in schedules : ScheduleDelete(s)
    \/ \E b \in {1, 2}, d \in FormatDates : GetActiveVariation(b, d)

SpecFormat == InitFormat /\ [][NextFormat]_vars

\* Every calendar date of a leap year and of the year after it.
CalendarDates ==
    {dt \in [year : {2024, 2025}, month : 1..12, day : 1..31] :
        dt.day <= days_in_month(dt.year, dt.month)}

\* The calendar model starts with one call of _is_nth_weekday about to be
\* made: a date, an occurrence in OCCURRENCE_CHOICES and a weekday in
\* WEEKDAY_CHOICES.
InitCalendar ==
    /\ moduleApps = <<>>
    /\ modules = <<>>
    /\ initialized = FALSE
    /\ scans = 0
    /\ registerLog = <<>>
    /\ readyLog = <<>>
    /\ errorLog = <<>>
    /\ FormatInit
    /\ SiteInit
    /\ call \in [op : {"calling_is_nth_weekday"}, check_date : CalendarDates,
                  n : 1..5, weekday : 0..6]

\* FormatService._is_nth_weekday(check_date, n, weekday) runs and returns.
IsNthWeekday ==
    /\ call.op = "calling_is_nth_weekday"
    /\ call' = [op |-> "is_nth_weekday", check_date |-> call.check_date,
                n |-> call.n, weekday |-> call.weekday,
                result |-> is_nth_weekday(call.check_date, call.n,
                                          call.weekday)]
    /\ UNCHANGED <<registryVars, formatVars, siteVars>>

NextCalendar == IsNthWeekday

SpecCalendar == InitCalendar /\ [][NextCalendar]_vars

(***************************************************************************)
(* Properties of the registry.                                             *)
(***************************************************************************)
CatalogNames == [i \in 1..Len(modules) |-> modules[i].config.name]

\* C1: a module of the catalog is in get_modules_for_user(p) exactly when it
\* is enabled and p is a superuser, or its read_positions is empty, or p
\* holds a position named in read_positions.
C1_ModulesForUserIffReadable ==
    call.op = "get_modules_for_user" =>
        \A i \in 1..Len(modules) :
            LET m == modules[i]
                p == call.user
            IN  (m \in Range(call.result)) <=>
                    /\ m.config.is_enabled
                    /\ \/ p.is_superuser
                       \/ m.config.read_positions = {}
                       \/ has_any_position(p, m.config.read_positions)

\* C2: for an enabled module p can read, with a non-empty required_positions,
\* each of its settings sections is in get_settings_sections_for_user(p)
\* exactly when p is a superuser or holds a position in required_positions.
C2_SettingsSectionsIffWritable ==
    call.op = "get_settings_sections_for_user" =>
        \A i \in 1..Len(modules) :
            LET m == modules[i]
                p == call.user
            IN  (/\ m.config.is_enabled
                 /\ check_access(m, p)
                 /\ m.config.required_positions # {}) =>
                    \A k \in 1..Len(m.settings_sections) :
                        (module_sections(m)[k] \in Range(call.result)) <=>
                            \/ p.is_superuser
                            \/ has_any_position(p, m.config.required_positions)

\* C6: whenever a request is served, every module of the catalog that grants
\* the request's user write access also grants that user read access.
C6_WriteImpliesRead ==
    call.op \in {"get_modules_for_user", "get_settings_sections_for_user"} =>
        \A i \in 1..Len(modules) :
            check_write_access(modules[i], call.user)
                => check_access(modules[i], call.user)

\* C7: no step replaces or removes a catalog entry, and a register call with
\* a name already in the catalog leaves the catalog as it was and raises
\* nothing.
C7_DuplicateRegisterKeepsFirst ==
    [][/\ Len(modules) <= Len(modules')
       /\ \A i \in 1..Len(modules) : modules'[i] = modules[i]
       /\ (call'.op = "register" /\ InCatalog(modules, call'.name)) =>
              (modules' = modules /\ ~call'.raised)]_vars

\* A duplicate register call returned after the catalog already held two
\* modules, one of them stored under the duplicate's name.
C7_Witness ==
    /\ call.op = "register"
    /\ call.warned
    /\ ~call.raised
    /\ Len(modules) = 2
    /\ InCatalog(modules, call.name)

\* C8: the candidate list is scanned at most once, and once autodiscover has
\* run every module of the catalog has had on_ready invoked exactly once, in
\* registration order.
C8_ReadyOncePerCatalogModule ==
    /\ scans <= 1
    /\ initialized => readyLog = CatalogNames

\* C9: after autodiscover every candidate that loads and declares a module
\* has its module name in the catalog, whatever the other candidates did.
C9_DiscoveryContinuesPastFailures ==
    initialized =>
        \A i \in 1..Len(moduleApps) :
            moduleApps[i].kind = "module" =>
                InCatalog(modules, moduleApps[i].class.config.name)

\* autodiscover has run over a list whose first candidate was logged at error
\* level (its import or its on_register hook raised) and whose later
\* candidate declares a module of another name, which is in the catalog.
C9_Witness ==
    /\ initialized
    /\ scans = 1
    /\ Len(moduleApps) >= 2
    /\ 1 \in Range(errorLog)
    /\ moduleApps[2].kind = "module"
    /\ moduleApps[1].kind = "module" =>
           moduleApps[1].class.config.name # moduleApps[2].class.config.name
    /\ InCatalog(modules, moduleApps[2].class.config.name)

(***************************************************************************)
(* Properties of the content scheduling.                                   *)
(***************************************************************************)
\* The active variations of a block, and those a stored rule matches.
ActiveIn(block) == {v \in variations : v.block = block /\ v.is_active}

MatchingIn(block, for_date) ==
    {v \in ActiveIn(block) : matches_schedule(schedules, v, for_date)}

LowestOrder(rows) == {v \in rows : \A u \in rows : v.order <= u.order}

\* C3: when some active variation of the block has a rule matching the date,
\* get_active_variation returns the one of lowest order among them, whichever
\* variation is the default.
C3_FirstMatchingByOrder ==
    call.op = "get_active_variation" =>
        LET matching == MatchingIn(call.block, call.for_date) IN
        matching # {} =>
            /\ Cardinality(call.result) = 1
            /\ call.result \subseteq LowestOrder(matching)

\* Two active variations of the block match the date, the one of higher order
\* is the default, and the one returned is the other.
C3_Witness ==
    /\ call.op = "get_active_variation"
    /\ Cardinality(MatchingIn(call.block, call.for_date)) >= 2
    /\ \E v \in call.result : ~v.is_default
    /\ \E u \in MatchingIn(call.block, call.for_date) :
           u.is_default /\ u \notin call.result

C5_ExactlyOneActiveDefault ==
    \A b \in blocks :
        ActiveIn(b.pk) # {} =>
            Cardinality({v \in ActiveIn(b.pk) : v.is_default}) = 1

\* C10: _is_nth_weekday(d, n, w) is true exactly when d falls on weekday w and
\* the days of d's month up to d that fall on weekday w number n.
C10_NthWeekdayCountsSameWeekdays ==
    call.op = "is_nth_weekday" =>
        LET dt == call.check_date
            same == {k \in 1..dt.day :
                        weekday(Date(dt.year, dt.month, k)) = call.weekday}
        IN  call.result <=>
                (weekday(dt) = call.weekday /\ Cardinality(same) = call.n)

\* The rule (3rd, Tuesday) was matched against 2025-01-21 and matched.
C10_Witness ==
    /\ call.op = "is_nth_weekday"
    /\ call.check_date = Date(2025, 1, 21)
    /\ call.n = 3
    /\ call.weekday = 1
    /\ call.result

\* C11: get_active_variation never returns a variation whose is_active is
\* false: what it returns is a stored, active variation of the block it was
\* asked about, on the schedule path and on both fallback paths.
C11_NeverReturnsInactive ==
    call.op = "get_active_variation" =>
        \A v \in call.result :
            v \in variations /\ v.block = call.block /\ v.is_active

\* No rule matched, the block's default is inactive and of lower order than
\* the active variation that was returned.
C11_Witness ==
    /\ call.op = "get_active_variation"
    /\ MatchingIn(call.block, call.for_date) = {}
    /\ \E v \in call.result :
           \E u \in variations :
               /\ u.block = call.block
               /\ u.is_default
               /\ ~u.is_active
               /\ u.order < v.order

\* C12: when a variation is saved with is_default = true in a block where
\* another variation is the default, the saved variation is afterwards the
\* only variation of that block with is_default = true.
C12_SavedDefaultUnsetsOthers ==
    [][(/\ call'.op \in {"variation_create", "variation_update"}
        /\ call'.is_default
        /\ \E u \in variations :
               u.pk # call'.pk /\ u.block = call'.block /\ u.is_default)
       => \A v \in variations' :
              (v.block = call'.block /\ v.is_default) <=> v.pk = call'.pk]_vars

\* A second variation was created as default in a block whose first
\* variation was the default until then: the new one is the default, the
\* older one no longer is.
C12_Witness ==
    /\ call.op = "variation_create"
    /\ call.is_default
    /\ \E v \in variations, u \in variations :
           /\ v.pk = call.pk
           /\ v.is_default
           /\ u.block = v.block
           /\ u.pk < v.pk
           /\ ~u.is_default

(***************************************************************************)
(* Blocks, meeting types and the public page: apps/meeting_format/views.py.*)
(***************************************************************************)
\* A queryset under Meta.ordering = ['order'] evaluated as a list: the rows
\* in ascending order.
RECURSIVE ordered(_)
ordered(rows) ==
    IF rows = {} THEN <<>>
    ELSE LET r == CHOOSE r \in rows : \A u \in rows : r.order <= u.order
         IN  <<r>> \o ordered(rows \ {r})

\* BlockUpdateView: is_active from the form.
BlockUpdate(b, is_active) ==
    /\ b \in blocks
    /\ blocks' = (blocks \ {b}) \cup {[b EXCEPT !.is_active = is_active]}
    /\ call' = [op |-> "block_update", pk |-> b.pk]
    /\ UNCHANGED <<siteVars,
                   registryVars, typeVars, variations, schedules, nextPk>>

\* BlockReorderView.post: the block swaps places with its neighbour in the
\* list ordered by `order`, and every block whose order differs from its new
\* index is saved with that index.
BlockReorder(block_id, direction) ==
    LET bs == ordered(blocks)
        current_index == CHOOSE i \in 1..Len(bs) : bs[i].pk = block_id
        other == IF direction = "up" /\ current_index > 1
                 THEN current_index - 1
                 ELSE IF direction = "down" /\ current_index < Len(bs)
                 THEN current_index + 1
                 ELSE current_index
        swapped == [bs EXCEPT ![current_index] = bs[other],
                              ![other] = bs[current_index]]
    IN  /\ \E b \in blocks : b.pk = block_id
        /\ blocks' = {[swapped[i] EXCEPT !.order = i - 1] :
                          i \in 1..Len(swapped)}
        /\ call' = [op |-> "block_reorder", pk |-> block_id]
        /\ UNCHANGED <<siteVars,
                       registryVars, typeVars, variations, schedules, nextPk>>

\* MeetingTypeUpdateView: is_active from the form.
MeetingTypeUpdate(t, is_active) ==
    /\ t \in meetingTypes
    /\ meetingTypes' = (meetingTypes \ {t})
                           \cup {[t EXCEPT !.is_active = is_active]}
    /\ call' = [op |-> "meeting_type_update", pk |-> t.pk]
    /\ UNCHANGED <<siteVars,
                   registryVars, blocks, variations, schedules, nextPk,
                   formatConfig>>

\* SelectMeetingTypeView.post: an empty id clears the selection, the id of an
\* active type selects it, any other id changes nothing.
SelectMeetingType(meeting_type_id) ==
    /\ formatConfig' =
           IF meeting_type_id # NULL
           THEN IF \E t \in meetingTypes :
                       t.pk = meeting_type_id /\ t.is_active
                THEN [formatConfig EXCEPT
                          !.selected_meeting_type = meeting_type_id]
                ELSE formatConfig
           ELSE [formatConfig EXCEPT !.selected_meeting_type = NULL]
    /\ call' = [op |-> "select_meeting_type", pk |-> meeting_type_id]
    /\ UNCHANGED <<siteVars,
                   registryVars, blocks, variations, schedules, nextPk,
                   meetingTypes>>

\* The preview type of PublicFormatView.get_context_data: the active type
\* the ?type= parameter names, nothing when it names no active type, and the
\* configured type when the parameter is absent.  A set of at most one row.
preview_type(types, cfg, preview_type_id) ==
    IF preview_type_id # NULL
    THEN {t \in types : t.pk = preview_type_id /\ t.is_active}
    ELSE {t \in types : t.pk = cfg.selected_meeting_type}

\* The loop without its tests on the meeting type: every active variation of
\* the block is displayed.
active_variations_untested(vs, block, ptype) ==
    ordered({v \in vs : v.block = block.pk /\ v.is_active})

\* The loop over block.variations.filter(is_active=True) that collects the
\* variations to display.
active_variations(vs, block, ptype) ==
    SelectSeq(ordered({v \in vs : v.block = block.pk /\ v.is_active}),
              LAMBDA var :
                  IF var.meeting_type = NULL THEN TRUE
                  ELSE \E t \in ptype : var.meeting_type = t.pk)

\* format_data of PublicFormatView.get_context_data: one entry per active
\* block, in block order.
format_data(bs, vs, ptype) ==
    LET act == ordered({b \in bs : b.is_active}) IN
    [i \in 1..Len(act) |->
        [block |-> act[i].pk,
         active_variations |-> active_variations(vs, act[i], ptype),
         all_variations |->
             ordered({v \in vs : v.block = act[i].pk /\ v.is_active})]]

\* PublicFormatView: GET of the public page, with or without ?type=.
PublicFormatView(preview_type_id) ==
    /\ call' =
           IF ~formatConfig.public_enabled
           THEN [op |-> "public_format", status |-> 404]
           ELSE LET ptype == preview_type(meetingTypes, formatConfig,
                                          preview_type_id)
                IN  [op |-> "public_format", status |-> 200,
                     preview_type |-> ptype,
                     format_data |-> format_data(blocks, variations, ptype)]
    /\ UNCHANGED <<registryVars, formatVars, siteVars>>

\* The ids a request can name: the two meeting types and one that does not
\* exist.
MeetingTypeIds == {1, 2, 3}

\* The public page model: the secretary's edits of the variations, of the
\* second block and of the second meeting type, and visitors' requests for
\* the page.  The forms leave is_default unchecked: the page never reads it.
InitPublic ==
    /\ moduleApps = <<>>
    /\ modules = <<>>
    /\ initialized = FALSE
    /\ scans = 0
    /\ registerLog = <<>>
    /\ readyLog = <<>>
    /\ errorLog = <<>>
    /\ call = NoCall
    /\ FormatInit
    /\ SiteInit

NextPublic ==
    \/ \E b \in {1, 2}, t \in {NULL, 1, 2}, a \in BOOLEAN :
           /\ t # NULL => \E mt \in meetingTypes : mt.pk = t /\ mt.is_active
           /\ VariationCreate(b, t, FALSE, a)
    \/ \E v \in variations, t \in {NULL, 1, 2}, a \in BOOLEAN :
           /\ t # NULL => \E mt \in meetingTypes : mt.pk = t /\ mt.is_active
           /\ VariationUpdate(v, t, FALSE, a)
    \/ \E v \in variations : VariationDelete(v)
    \/ \E b \in blocks, a \in BOOLEAN : b.pk = 2 /\ BlockUpdate(b, a)
    \/ \E t \in meetingTypes, a \in BOOLEAN :
           t.pk = 2 /\ MeetingTypeUpdate(t, a)
    \/ \E id \in MeetingTypeIds \cup {NULL} : SelectMeetingType(id)
    \/ \E id \in MeetingTypeIds \cup {NULL} : PublicFormatView(id)

SpecPublic == InitPublic /\ [][NextPublic]_vars

(***************************************************************************)
(* Properties of the public page.                                          *)
(***************************************************************************)
\* C13: the public page has one entry per active block, and the variations an
\* entry lists are exactly the block's active variations that have no meeting
\* type or whose meeting type is the current type; with no current type they
\* are exactly the untagged active variations.
C13_PublicListsUntaggedAndCurrentType ==
    (call.op = "public_format" /\ call.status = 200) =>
        /\ {call.format_data[i].block : i \in 1..Len(call.format_data)}
               = {b.pk : b \in {x \in blocks : x.is_active}}
        /\ \A i \in 1..Len(call.format_data) :
               LET entry == call.format_data[i]
                   shown == {v \in variations :
                                /\ v.block = entry.block
                                /\ v.is_active
                                /\ \/ v.meeting_type = NULL
                                   \/ \E t \in call.preview_type :
                                          v.meeting_type = t.pk}
               IN  /\ Range(entry.active_variations) = shown
                   /\ Len(entry.active_variations) = Cardinality(shown)

\* The current type is the second meeting type, and a block's entry lists
\* both its untagged variation and its variation tagged with that type.
C13_Witness ==
    /\ call.op = "public_format"
    /\ call.status = 200
    /\ \E t \in call.preview_type : t.pk = 2
    /\ \E i \in 1..Len(call.format_data) :
           LET shown == Range(call.format_data[i].active_variations) IN
           /\ \E v \in shown : v.meeting_type = NULL
           /\ \E v \in shown : v.meeting_type = 2

(***************************************************************************)
(* The format of a date: FormatService.get_format_for_date.                *)
(***************************************************************************)
\* get_format_for_date that leaves out the blocks without a variation to
\* show.
get_format_for_date_skip_empty(bs, vs, rows, for_date) ==
    LET act == ordered({b \in bs :
                   /\ b.is_active
                   /\ get_active_variation(vs, rows, b.pk, for_date) # {}})
    IN  [i \in 1..Len(act) |->
            [block |-> act[i].pk,
             active_variation |->
                 get_active_variation(vs, rows, act[i].pk, for_date),
             all_variations |->
                 ordered({v \in vs : v.block = act[i].pk /\ v.is_active}),
             is_rotating |->
                 Cardinality({v \in vs : v.block = act[i].pk /\ v.is_active})
                     > 1]]

\* FormatService.get_format_for_date(for_date): one dict per active block of
\* the meeting, in block order.
get_format_for_date(bs, vs, rows, for_date) ==
    LET act == ordered({b \in bs : b.is_active}) IN
    [i \in 1..Len(act) |->
        [block |-> act[i].pk,
         active_variation |->
             get_active_variation(vs, rows, act[i].pk, for_date),
         all_variations |->
             ordered({v \in vs : v.block = act[i].pk /\ v.is_active}),
         is_rotating |->
             Cardinality({v \in vs : v.block = act[i].pk /\ v.is_active}) > 1]]

\* FormatService(meeting).get_format_for_date(for_date) is called.
GetFormatForDate(for_date) ==
    /\ call' = [op |-> "get_format_for_date", for_date |-> for_date,
                result |-> get_format_for_date(blocks, variations, schedules,
                                               for_date)]
    /\ UNCHANGED <<registryVars, formatVars, siteVars>>

\* The rules the secretary stores in this model: every third Tuesday.
ThirdTuesday ==
    [schedule_type |-> "weekday_occurrence", occurrence |-> 3, weekday |-> 1,
     specific_date |-> NullDate]

\* The whole-format model: the secretary reorders the blocks, hides and
\* shows the second one, edits the untagged variations and their rules, and
\* the format of a date is requested.
InitAssemble ==
    /\ moduleApps = <<>>
    /\ modules = <<>>
    /\ initialized = FALSE
    /\ scans = 0
    /\ registerLog = <<>>
    /\ readyLog = <<>>
    /\ errorLog = <<>>
    /\ call = NoCall
    /\ FormatInit
    /\ SiteInit

NextAssemble ==
    \/ \E b \in {1, 2}, d \in BOOLEAN, a \in BOOLEAN :
           VariationCreate(b, NULL, d, a)
    \/ \E v \in variations, d \in BOOLEAN, a \in BOOLEAN :
           VariationUpdate(v, NULL, d, a)
    \/ \E v \in variations : VariationDelete(v)
    \/ \E v \in variations : ScheduleCreate(v, ThirdTuesday)
    \/ \E s \in schedules : ScheduleDelete(s)
    \/ \E b \in blocks, a \in BOOLEAN : b.pk = 2 /\ BlockUpdate(b, a)
    \/ \E b \in {1, 2}, dir \in {"up", "down"} : BlockReorder(b, dir)
    \/ \E d \in FormatDates : GetFormatForDate(d)

SpecAssemble == InitAssemble /\ [][NextAssemble]_vars

(***************************************************************************)
(* Properties of the format of a date.                                     *)
(***************************************************************************)
BlockOrder(pk) == (CHOOSE b \in blocks : b.pk = pk).order

\* C14: get_format_for_date returns exactly one entry per active block, in
\* ascending block order, none for an inactive block; each entry carries what
\* get_active_variation returns for its block and the date, which is nothing
\* for a block without an active variation.
C14_OneEntryPerActiveBlockInOrder ==
    call.op = "get_format_for_date" =>
        LET res == call.result IN
        /\ {res[i].block : i \in 1..Len(res)}
               = {b.pk : b \in {x \in blocks : x.is_active}}
        /\ \A i \in 1..Len(res), j \in 1..Len(res) :
               i < j => BlockOrder(res[i].block) < BlockOrder(res[j].block)
        /\ \A i \in 1..Len(res) :
               /\ res[i].active_variation =
                      get_active_variation(variations, schedules,
                                           res[i].block, call.for_date)
               /\ ActiveIn(res[i].block) = {}
                      => res[i].active_variation = {}

\* Both blocks are active and were reordered: the entry of block 2 comes
\* first and carries a variation picked by its rule, the entry of block 1,
\* which has no active variation, carries nothing.
C14_Witness ==
    /\ call.op = "get_format_for_date"
    /\ Len(call.result) = 2
    /\ call.result[1].block = 2
    /\ call.result[1].active_variation # {}
    /\ MatchingIn(2, call.for_date) # {}
    /\ call.result[2].block = 1
    /\ call.result[2].active_variation = {}

\* The fields a rule's kind requires are set.
HasRequiredFields(s) ==
    CASE s.schedule_type = "weekday_occurrence" ->
            s.occurrence # NULL /\ s.weekday # NULL
      [] s.schedule_type = "day_of_week" -> s.weekday # NULL
      [] s.schedule_type = "specific_date" -> s.specific_date # NullDate
      [] OTHER -> FALSE

\* C15: every stored schedule rule has the fields its kind requires, and a
\* schedule-creation submission that misses one of them is rejected and
\* leaves the stored rules as they were.
C15_IncompleteRuleNeverStored ==
    [][/\ \A s \in schedules' : HasRequiredFields(s)
       /\ (call'.op = "schedule_create" /\ ~HasRequiredFields(call'.form))
             => (~call'.valid /\ schedules' = schedules)]_vars

\* A weekday_occurrence submission without its occurrence was rejected while
\* a complete rule stored earlier is still there.
C15_Witness ==
    /\ call.op = "schedule_create"
    /\ call.form.schedule_type = "weekday_occurrence"
    /\ call.form.occurrence = NULL
    /\ ~call.valid
    /\ schedules # {}

(***************************************************************************)
(* Properties of the registry's listings.                                  *)
(***************************************************************************)
\* C16: the list get_modules_for_user returns is in ascending module order,
\* and two modules of equal order are in the order of their registration.
C16_SortedByOrderThenRegistration ==
    call.op = "get_modules_for_user" =>
        \A i \in 1..Len(call.result), j \in 1..Len(call.result) :
            i < j =>
                LET a == call.result[i]
                    b == call.result[j]
                IN  \/ a.config.order < b.config.order
                    \/ /\ a.config.order = b.config.order
                       /\ get_module(modules, a.config.name)
                              < get_module(modules, b.config.name)

\* business_meeting (order 45) was registered first, then treasurer and
\* readings with the same order: the list is treasurer, readings,
\* business_meeting.
C16_Witness ==
    /\ call.op = "get_modules_for_user"
    /\ Len(call.result) = 3
    /\ CatalogNames = <<"business_meeting", "treasurer", "readings">>
    /\ call.result[1].config.name = "treasurer"
    /\ call.result[2].config.name = "readings"
    /\ call.result[1].config.order = call.result[2].config.order
    /\ call.result[3].config.name = "business_meeting"

\* C17: get_navigation_for_user returns exactly the navigation items of the
\* modules get_modules_for_user returns for the same principal, each once and
\* under its module's name, in ascending order of the items' own order.
C17_NavigationOfAccessibleModules ==
    call.op = "get_navigation_for_user" =>
        LET ms == Range(get_modules_for_user(modules, call.user))
            expected == {[module |-> m.config.name,
                          label |-> m.nav_items[k].label,
                          order |-> m.nav_items[k].order] :
                             <<m, k>> \in {mk \in ms \X (1..2) :
                                              mk[2] <= Len(mk[1].nav_items)}}
        IN  /\ Range(call.result) = expected
            /\ Len(call.result) = Cardinality(expected)
            /\ \A m \in ms : m.config.is_enabled /\ check_access(m, call.user)
            /\ \A i \in 1..Len(call.result), j \in 1..Len(call.result) :
                   i < j => call.result[i].order <= call.result[j].order

\* Three modules are registered and one of them is not readable by the
\* principal; the items of the other two come interleaved: an item of
\* treasurer, the item of business_meeting, the second item of treasurer.
C17_Witness ==
    /\ call.op = "get_navigation_for_user"
    /\ Len(modules) = 3
    /\ \E i \in 1..3 : ~check_access(modules[i], call.user)
    /\ Len(call.result) = 3
    /\ call.result[1].module = "treasurer"
    /\ call.result[2].module = "business_meeting"
    /\ call.result[3].module = "treasurer"

C19_OnRegisterOncePerAddedModule ==
    [][/\ call'.op = "register" =>
              IF InCatalog(modules, call'.name)
              THEN /\ call'.warned
                   /\ modules' = modules
                   /\ registerLog' = registerLog
              ELSE /\ modules' # modules
                   /\ registerLog' = Append(registerLog, call'.name)
       /\ registerLog' = CatalogNames']_vars

\* Two modules were added, the first by a register call whose hook raised;
\* then a register call for an already registered name was ignored: each of
\* the two hooks has run once.
C19_Witness ==
    /\ call.op = "register"
    /\ call.warned
    /\ Len(modules) = 2
    /\ modules[1].on_register_raises
    /\ registerLog = CatalogNames

\* C20: once autodiscover has returned, no candidate source it logged at
\* error level has its module in the catalog.
C20_ErroredSourceNotInCatalog ==
    initialized =>
        \A i \in Range(errorLog) :
            moduleApps[i].kind = "module" =>
                \A k \in 1..Len(modules) : modules[k] # moduleApps[i].class

(***************************************************************************)
(* Properties of the request-time registry operations.                     *)
(***************************************************************************)
\* C21: get_module, get_all_modules, get_enabled_modules,
\* get_modules_for_user, get_navigation_for_user and
\* get_settings_sections_for_user leave the catalog as it was, and so does a
\* modification of the mapping get_all_modules returned.
C21_QueriesLeaveCatalogUnchanged ==
    [][call'.op \in {"get_module", "get_all_modules", "get_enabled_modules",
                     "get_modules_for_user", "get_navigation_for_user",
                     "get_settings_sections_for_user",
                     "returned_mapping_modified"}
          => modules' = modules]_vars

\* The caller emptied the mapping get_all_modules returned while the catalog
\* still holds its three modules.
C21_Witness ==
    /\ call.op = "returned_mapping_modified"
    /\ call.result.mapping = <<>>
    /\ Len(modules) = 3

(***************************************************************************)
(* The settings page: apps/core/views.py, SettingsView.                    *)
(***************************************************************************)
\* The loop of SettingsView.post over the user's sections: the first section
\* named like the tab, from index i on, or nothing.
RECURSIVE find_section(_, _, _)
find_section(sections, active_tab, i) ==
    IF i > Len(sections) THEN {}
    ELSE IF sections[i].name = active_tab THEN {sections[i]}
    ELSE find_section(sections, active_tab, i + 1)

\* The loop run over the sections of every module of the catalog, whoever
\* posts.
settings_post_target_unchecked(mods, user, active_tab) ==
    LET all == [i \in 1..Len(mods) |-> module_sections(mods[i])]
        flat == IF Len(mods) = 0 THEN <<>>
                ELSE IF Len(mods) = 1 THEN all[1]
                ELSE IF Len(mods) = 2 THEN all[1] \o all[2]
                ELSE all[1] \o all[2] \o all[3]
    IN  find_section(flat, active_tab, 1)

\* The section SettingsView.post delegates to for a tab other than 'general'.
settings_post_target(mods, user, active_tab) ==
    find_section(get_settings_sections_for_user(mods, user), active_tab, 1)

\* SettingsView.post: the 'general' tab saves the MeetingConfig form when it
\* is valid; any other tab is handed to handle_settings_post of the module
\* owning the user's section of that name, which saves its form when it is
\* valid.
SettingsPost(u, active_tab, form_valid) ==
    LET target == IF active_tab = "general" THEN {}
                  ELSE settings_post_target(modules, u, active_tab)
        handled == {s.module_name : s \in target}
    IN  /\ call' = [op |-> "settings_post", user |-> u, tab |-> active_tab,
                    general_saved |-> active_tab = "general" /\ form_valid,
                    handled |-> handled,
                    saved |-> IF form_valid THEN handled ELSE {}]
        /\ UNCHANGED <<registryVars, formatVars, siteVars>>

\* The module classes of the settings model: those of the access model at
\* their declared orders.
SettingsClasses == {c \in AccessClasses : c.config.order # 35}

\* The settings model: modules are registered and logged-in users post to
\* the tabs of the settings page.
InitSettings ==
    /\ moduleApps = <<>>
    /\ modules = <<>>
    /\ initialized = FALSE
    /\ scans = 0
    /\ registerLog = <<>>
    /\ readyLog = <<>>
    /\ errorLog = <<>>
    /\ call = NoCall
    /\ FormatInit
    /\ SiteInit

NextSettings ==
    \/ \E c \in SettingsClasses : RegisterModule(c)
    \/ \E u \in Users, tab \in ModuleNames \cup {"general"}, v \in BOOLEAN :
           SettingsPost(u, tab, v)

SpecSettings == InitSettings /\ [][NextSettings]_vars

\* C22: a settings POST runs a module's handle_settings_post only when that
\* module's sections are among get_settings_sections_for_user of the posting
\* user and the tab names one of them; otherwise no handler runs and no
\* module's settings are saved.
C22_SettingsPostOnlyForIncludedModule ==
    call.op = "settings_post" =>
        LET included == {s.module_name :
                s \in Range(get_settings_sections_for_user(modules, call.user))}
        IN  /\ call.handled \subseteq included
            /\ call.saved \subseteq call.handled
            /\ \A n \in call.handled :
                   /\ n = call.tab
                   /\ \E i \in 1..Len(modules) :
                          /\ modules[i].config.name = n
                          /\ modules[i].config.is_enabled
                          /\ check_access(modules[i], call.user)
                          /\ check_write_access(modules[i], call.user)
            /\ call.tab \notin included => (call.handled = {} /\ call.saved = {})

\* A user without the treasurer position posted to the treasurer tab of a
\* registered, enabled treasurer module that requires it: nothing ran.
C22_Witness ==
    /\ call.op = "settings_post"
    /\ call.tab = "treasurer"
    /\ call.handled = {}
    /\ ~call.user.is_superuser
    /\ \E i \in 1..Len(modules) :
           /\ modules[i].config.name = "treasurer"
           /\ modules[i].config.is_enabled
           /\ modules[i].config.required_positions = {"treasurer"}
           /\ ~check_write_access(modules[i], call.user)

\* C23: after a save of a variation its block has a variation with
\* is_default = true, and when no other variation of the block was default
\* the saved one is, whatever is_default and is_active were submitted.
C23_SaveLeavesADefault ==
    [][call'.op \in {"variation_create", "variation_update"} =>
          /\ \E v \in variations' : v.block = call'.block /\ v.is_default
          /\ (~\E u \in variations :
                  u.pk # call'.pk /\ u.block = call'.block /\ u.is_default)
                 => \E v \in variations' : v.pk = call'.pk /\ v.is_default]_vars

\* The block's only variation was edited with is_default and is_active both
\* unchecked: it is stored inactive and still the default.
C23_Witness ==
    /\ call.op = "variation_update"
    /\ ~call.is_default
    /\ \E v \in variations :
           /\ v.pk = call.pk
           /\ v.is_default
           /\ ~v.is_active
           /\ \A u \in variations : u.block = v.block => u = v

(***************************************************************************)
(* Service positions and their assignments: apps/positions/views.py,       *)
(* apps/positions/forms.py, apps/core/models.py, apps/core/mixins.py.      *)
(***************************************************************************)
\* Most PositionAssignment rows the table is let grow to.
MaxAssignments == 2

\* request.user for the user row `pk`: its position_assignments relation
\* joined with the positions' names, and its legacy `positions` relation.
UserOf(pk) ==
    LET u == CHOOSE r \in UserRows : r.pk = pk IN
    [is_superuser |-> u.is_superuser,
     position_assignments |->
         {[position |-> (CHOOSE p \in servicePositions :
                             p.pk = a.position).name,
           end_date_isnull |-> a.end_date_isnull] :
              a \in {x \in positionAssignments : x.user = pk}},
     positions |-> u.positions]

\* User.is_service_position_holder
is_service_position_holder(user) ==
    IF \E a \in user.position_assignments : a.end_date_isnull
    THEN TRUE
    ELSE user.positions # {}

\* PositionRequiredMixin.test_func, which ServicePositionRequiredMixin
\* overrides.
position_required_test_func(required_positions, user) ==
    IF user.is_superuser THEN TRUE
    ELSE IF required_positions # {}
         THEN has_any_position(user, required_positions)
         ELSE TRUE

\* ServicePositionRequiredMixin.test_func for a view that declares
\* `required_positions`
test_func(required_positions, user) ==
    IF user.is_superuser THEN TRUE
    ELSE is_service_position_holder(user)

\* The management views of apps/meeting_format/views.py, one of each group;
\* every one declares required_positions = ['secretary', 'group_rep'].
FormatViews ==
    {"BlockListView", "VariationCreateView", "ScheduleCreateView",
     "MeetingTypeListView", "SelectMeetingTypeView", "FormatSettingsView"}

FormatRequiredPositions == {"secretary", "group_rep"}

\* dispatch() of a meeting-format management view for the logged-in user
\* `pk`: UserPassesTestMixin admits the request when test_func() is true and
\* raises PermissionDenied otherwise.
FormatViewDispatch(view, pk) ==
    /\ call' = [op |-> "format_view", view |-> view, user |-> pk,
                required_positions |-> FormatRequiredPositions,
                admitted |-> test_func(FormatRequiredPositions, UserOf(pk))]
    /\ UNCHANGED <<registryVars, formatVars, siteVars>>

\* PositionAssignment.objects.filter(user=user, is_primary=True,
\* end_date__isnull=True)
current_primary(rows, user) ==
    {a \in rows : a.user = user /\ a.is_primary /\ a.end_date_isnull}

\* queryset.first() under Meta.ordering = ['-start_date', '-created_at']: the
\* row created last, as {} or {row}.
first(rows) ==
    IF rows = {} THEN {}
    ELSE {CHOOSE a \in rows : \A b \in rows : b.pk <= a.pk}

\* PositionAssignmentForm.clean(): the form is valid unless it sets a primary
\* position for a user who has a current primary assignment.
clean(rows, user, is_primary) ==
    ~(is_primary /\ current_primary(rows, user) # {})

\* form.get_existing_primary(), which AssignmentCreateView.form_valid calls
\* and forms.py does not define: from its use at the call site, the user's
\* current primary assignment, as {} or {row}.
get_existing_primary(rows, user) ==
    first(current_primary(rows, user))

\* PositionAssignment.objects.create(user=..., position=..., is_primary=...)
create_assignment(rows, user, position, is_primary) ==
    rows \cup {[pk |-> Cardinality(rows) + 1, user |-> user,
                position |-> position, is_primary |-> is_primary,
                end_date_isnull |-> TRUE]}

\* AssignmentCreateView: POST of the assignment form for position `position`
\* with the fields user and is_primary, end_date left blank.
AssignmentCreate(position, user, is_primary) ==
    /\ \E p \in servicePositions : p.pk = position
    /\ Cardinality(positionAssignments) < MaxAssignments
    /\ LET existing_primary == get_existing_primary(positionAssignments, user)
       IN
       IF ~clean(positionAssignments, user, is_primary)
       THEN /\ call' = [op |-> "assign", outcome |-> "invalid"]
            /\ UNCHANGED <<positionAssignments, pendingAssignment>>
       ELSE IF existing_primary # {}
       THEN /\ pendingAssignment' =
                   {[user_id |-> user, is_primary |-> is_primary,
                     position_id |-> position,
                     existing_assignment_id |->
                         (CHOOSE a \in existing_primary : TRUE).pk]}
            /\ call' = [op |-> "assign", outcome |-> "conflict"]
            /\ UNCHANGED positionAssignments
       ELSE /\ positionAssignments' =
                   create_assignment(positionAssignments, user, position,
                                     is_primary)
            /\ call' = [op |-> "assign", outcome |-> "created"]
            /\ UNCHANGED pendingAssignment
    /\ UNCHANGED <<registryVars, formatVars, servicePositions, treasuryVars,
                   wizardVars, saving>>

\* ResolveConflictView.post: the rows after the chosen action on the pending
\* assignment.
resolve_conflict(rows, pending, action) ==
    LET existing == CHOOSE a \in rows : a.pk = pending.existing_assignment_id
        others == rows \ {existing}
    IN  IF action = "make_secondary"
        THEN create_assignment(
                 others \cup {[existing EXCEPT !.is_primary = FALSE]},
                 pending.user_id, pending.position_id, TRUE)
        ELSE IF action = "remove_existing"
        THEN create_assignment(
                 others \cup {[existing EXCEPT !.end_date_isnull = FALSE]},
                 pending.user_id, pending.position_id, TRUE)
        ELSE rows

ResolveConflict(action) ==
    /\ Cardinality(positionAssignments) < MaxAssignments
    /\ IF pendingAssignment = {}
       THEN /\ call' = [op |-> "resolve_conflict", outcome |-> "no_pending"]
            /\ UNCHANGED <<positionAssignments, pendingAssignment>>
       ELSE LET pending == CHOOSE p \in pendingAssignment : TRUE IN
            IF ~\E p \in servicePositions : p.pk = pending.position_id
            THEN /\ call' = [op |-> "resolve_conflict", outcome |-> "404"]
                 /\ UNCHANGED <<positionAssignments, pendingAssignment>>
            ELSE /\ positionAssignments' =
                        resolve_conflict(positionAssignments, pending, action)
                 /\ pendingAssignment' = {}
                 /\ call' = [op |-> "resolve_conflict", outcome |-> action]
    /\ UNCHANGED <<registryVars, formatVars, servicePositions, treasuryVars,
                   wizardVars, saving>>

\* EndTermView.form_valid: the assignment's end_date is set from the form.
EndTerm(a) ==
    /\ a \in positionAssignments
    /\ positionAssignments' =
           (positionAssignments \ {a})
               \cup {[a EXCEPT !.end_date_isnull = FALSE]}
    /\ call' = [op |-> "end_term", outcome |-> "ended"]
    /\ UNCHANGED <<registryVars, formatVars, servicePositions,
                   pendingAssignment, treasuryVars, wizardVars, saving>>

\* ReactivateAssignmentView.post: the end_date of a historical assignment is
\* cleared.
ReactivateAssignment(a) ==
    /\ a \in positionAssignments
    /\ ~a.end_date_isnull
    /\ positionAssignments' =
           (positionAssignments \ {a})
               \cup {[a EXCEPT !.end_date_isnull = TRUE]}
    /\ call' = [op |-> "reactivate", outcome |-> "reactivated"]
    /\ UNCHANGED <<registryVars, formatVars, servicePositions,
                   pendingAssignment, treasuryVars, wizardVars, saving>>

\* TogglePrimaryView.post: the rows after the star of a current assignment
\* is toggled.
toggle_primary(rows, a) ==
    IF a.is_primary
    THEN (rows \ {a}) \cup {[a EXCEPT !.is_primary = FALSE]}
    ELSE {IF b.pk = a.pk THEN [b EXCEPT !.is_primary = TRUE]
          ELSE IF b.user = a.user /\ b.is_primary /\ b.end_date_isnull
               THEN [b EXCEPT !.is_primary = FALSE]
               ELSE b : b \in rows}

TogglePrimary(a) ==
    /\ a \in positionAssignments
    /\ a.end_date_isnull
    /\ positionAssignments' = toggle_primary(positionAssignments, a)
    /\ call' = [op |-> "toggle_primary", outcome |-> "toggled"]
    /\ UNCHANGED <<registryVars, formatVars, servicePositions,
                   pendingAssignment, treasuryVars, wizardVars, saving>>

\* PositionDeleteView.form_valid with only current assignments counted as
\* history.
position_delete_current_only(positions, rows, p) ==
    IF \E a \in rows : a.position = p.pk /\ a.end_date_isnull
    THEN [positions |-> positions, rows |-> rows, outcome |-> "refused"]
    ELSE [positions |-> positions \ {p},
          rows |-> {a \in rows : a.position # p.pk},
          outcome |-> "deleted"]

\* PositionDeleteView.form_valid: refused when self.object.assignments
\* exists; otherwise the row is deleted, and its assignments with it
\* (on_delete=CASCADE).
position_delete(positions, rows, p) ==
    IF \E a \in rows : a.position = p.pk
    THEN [positions |-> positions, rows |-> rows, outcome |-> "refused"]
    ELSE [positions |-> positions \ {p},
          rows |-> {a \in rows : a.position # p.pk},
          outcome |-> "deleted"]

PositionDelete(p) ==
    /\ p \in servicePositions
    /\ LET r == position_delete(servicePositions, positionAssignments, p) IN
       /\ servicePositions' = r.positions
       /\ positionAssignments' = r.rows
       /\ call' = [op |-> "position_delete", position |-> p.pk,
                   outcome |-> r.outcome]
    /\ UNCHANGED <<registryVars, formatVars, pendingAssignment, treasuryVars,
                   wizardVars, saving>>

InitPositions ==
    /\ moduleApps = <<>>
    /\ modules = <<>>
    /\ initialized = FALSE
    /\ scans = 0
    /\ registerLog = <<>>
    /\ readyLog = <<>>
    /\ errorLog = <<>>
    /\ call = NoCall
    /\ FormatInit
    /\ SiteInit

NextPositions ==
    \/ \E p \in {1, 2}, u \in {1, 2}, primary \in BOOLEAN :
           AssignmentCreate(p, u, primary)
    \/ \E action \in {"make_secondary", "remove_existing", "cancel"} :
           ResolveConflict(action)
    \/ \E a \in positionAssignments : EndTerm(a)
    \/ \E a \in positionAssignments : ReactivateAssignment(a)
    \/ \E a \in positionAssignments : TogglePrimary(a)
    \/ \E p \in servicePositions : PositionDelete(p)

SpecPositions == InitPositions /\ [][NextPositions]_vars

\* The requests of the members and the administrator to the meeting-format
\* management views, as assignments are made and terms end.
NextFormatAccess ==
    \/ \E p \in {1, 2}, u \in {1, 2}, primary \in BOOLEAN :
           AssignmentCreate(p, u, primary)
    \/ \E a \in positionAssignments : EndTerm(a)
    \/ \E view \in FormatViews, u \in {1, 2, 3} : FormatViewDispatch(view, u)

SpecFormatAccess == InitPositions /\ [][NextFormatAccess]_vars

(***************************************************************************)
(* Properties of the service positions and of the access to the            *)
(* meeting-format management views.                                        *)
(***************************************************************************)
\* C24: a meeting-format management view admits a user who is not a
\* superuser only if the user currently holds one of the positions the view
\* names in required_positions ('secretary', 'group_rep').
C24_AdmittedOnlyWithRequiredPosition ==
    (call.op = "format_view" /\ call.admitted
        /\ ~UserOf(call.user).is_superuser)
    => has_any_position(UserOf(call.user), call.required_positions)

\* The positions user `u` currently holds.
CurrentPositions(u) ==
    {a.position : a \in {x \in positionAssignments :
                             x.user = u /\ x.end_date_isnull}}

\* C25: after any sequence of assign, toggle-primary, end-term, reactivate
\* and conflict-resolution operations, every user who currently holds more
\* than one position has exactly one current assignment marked primary.
C25_ExactlyOnePrimary ==
    \A u \in {1, 2} :
        Cardinality(CurrentPositions(u)) > 1
            => Cardinality(current_primary(positionAssignments, u)) = 1

\* C30: a position delete for a position that has an assignment record,
\* current or ended, leaves the positions and the assignments as they were.
C30_DeleteKeepsPositionWithHistory ==
    [][(call'.op = "position_delete"
          /\ \E a \in positionAssignments : a.position = call'.position)
       => /\ servicePositions' = servicePositions
          /\ positionAssignments' = positionAssignments]_vars

\* A delete was refused for a position whose only assignment records are
\* ended ones.
C30_Witness ==
    /\ call.op = "position_delete"
    /\ call.outcome = "refused"
    /\ \E p \in servicePositions : p.pk = call.position
    /\ \E a \in positionAssignments : a.position = call.position
    /\ \A a \in positionAssignments :
           a.position = call.position => ~a.end_date_isnull

(***************************************************************************)
(* The treasury: apps/treasurer/models.py and apps/treasurer/services.py.  *)
(* Amounts are in cents and percentages in hundredths of a percent, the    *)
(* two decimal places both DecimalFields keep.                             *)
(***************************************************************************)
\* Most add_income / add_expense calls of a run.
MaxEntries == 3

\* Decimal('100') in hundredths of a percent.
Hundred == 10000

\* DisbursementSplit rows and their items' percentages in Meta.ordering:
\* 60 / 30 / 10, 50 / 50 and 33.33 / 33.33 / 33.34.
DisbursementSplits ==
    {[pk |-> 1, items |-> <<6000, 3000, 1000>>],
     [pk |-> 2, items |-> <<5000, 5000>>],
     [pk |-> 3, items |-> <<3333, 3333, 3334>>]}

\* The amounts a transaction form submits: 0.01, 1.00 and 10.05.
Amounts == {1, 100, 1005}

\* (amount * percentage / Decimal('100')).quantize(Decimal('0.01')) with the
\* exact quotient amount * percentage / 100 given as n / Hundred cents: the
\* default context rounds half to even.
quantize(n) ==
    LET q == n \div Hundred
        r == n % Hundred
    IN  IF 2 * r > Hundred THEN q + 1
        ELSE IF 2 * r < Hundred THEN q
        ELSE IF q % 2 = 0 THEN q ELSE q + 1

\* DisbursementSplit.calculate_splits(amount): the items' amounts in order.
calculate_splits(split, amount) ==
    [i \in 1..Len(split.items) |->
        [percentage |-> split.items[i],
         amount |-> quantize(amount * split.items[i])]]

\* Sum('amount') over a set of rows.
RECURSIVE SumAmount(_)
SumAmount(rows) ==
    IF rows = {} THEN 0
    ELSE LET r == CHOOSE x \in rows : TRUE
         IN  r.amount + SumAmount(rows \ {r})

\* get_current_balance() summing every record, the children of a split too.
get_current_balance_all_records(settings, records) ==
    settings.starting_balance
        + SumAmount({r \in records : r.type = "income"})
        - SumAmount({r \in records : r.type = "expense"})

\* TreasurerService.get_current_balance()
get_current_balance(settings, records) ==
    LET parents == {r \in records : r.parent_record = NULL} IN
    settings.starting_balance
        + SumAmount({r \in parents : r.type = "income"})
        - SumAmount({r \in parents : r.type = "expense"})

\* TreasurerRecord.objects.create(...): the table with the new row.
create_record(records, type, amount, parent_record) ==
    records \cup {[pk |-> Cardinality(records) + 1, type |-> type,
                   amount |-> amount, parent_record |-> parent_record]}

\* The table after the children of `parent` are created from splits[i..].
RECURSIVE create_children(_, _, _, _)
create_children(records, splits, i, parent) ==
    IF i > Len(splits) THEN records
    ELSE create_children(
             create_record(records, "expense", splits[i].amount, parent),
             splits, i + 1, parent)

\* TreasurerService.add_income(date, amount, ...)
add_income(records, amount) ==
    create_record(records, "income", amount, NULL)

\* TreasurerService.add_expense(date, amount, ..., disbursement_split):
\* disbursement_split is {} for None.
add_expense(records, amount, disbursement_split) ==
    IF disbursement_split # {}
    THEN LET split == CHOOSE s \in disbursement_split : TRUE
             parent == Cardinality(records) + 1
         IN  create_children(create_record(records, "expense", amount, NULL),
                             calculate_splits(split, amount), 1, parent)
    ELSE create_record(records, "expense", amount, NULL)

Entries == {r \in treasurerRecords : r.parent_record = NULL}

AddIncome(amount) ==
    /\ Cardinality(Entries) < MaxEntries
    /\ treasurerRecords' = add_income(treasurerRecords, amount)
    /\ call' = [op |-> "add_income", amount |-> amount,
                created |-> {Cardinality(treasurerRecords) + 1}]
    /\ UNCHANGED <<registryVars, formatVars, positionVars, treasurerSettings,
                   wizardVars, saving>>

AddExpense(amount, disbursement_split) ==
    /\ Cardinality(Entries) < MaxEntries
    /\ treasurerRecords' =
           add_expense(treasurerRecords, amount, disbursement_split)
    /\ call' = [op |-> "add_expense", amount |-> amount,
                disbursement_split |-> disbursement_split,
                created |-> {r.pk : r \in treasurerRecords'
                                        \ treasurerRecords}]
    /\ UNCHANGED <<registryVars, formatVars, positionVars, treasurerSettings,
                   wizardVars, saving>>

\* The starting balances of the runs: 0.00 (the default) and 50.00.
InitTreasury ==
    /\ moduleApps = <<>>
    /\ modules = <<>>
    /\ initialized = FALSE
    /\ scans = 0
    /\ registerLog = <<>>
    /\ readyLog = <<>>
    /\ errorLog = <<>>
    /\ call = NoCall
    /\ FormatInit
    /\ servicePositions = ServicePositionRows
    /\ positionAssignments = {}
    /\ pendingAssignment = {}
    /\ treasurerSettings \in {[starting_balance |-> b] : b \in {0, 5000}}
    /\ treasurerRecords = {}
    /\ saving = [r \in Requests |-> Idle]
    /\ session = [s \in Sessions |-> NewSession]
    /\ meetingConfig = MeetingConfigRow

NextTreasury ==
    \/ \E amount \in Amounts : AddIncome(amount)
    \/ \E amount \in Amounts,
          split \in {{}} \cup {{s} : s \in DisbursementSplits} :
           AddExpense(amount, split)

SpecTreasury == InitTreasury /\ [][NextTreasury]_vars

\* C26: the balance starts at the starting balance, every add_income raises
\* it by exactly the amount passed and every add_expense, with or without a
\* disbursement split, lowers it by exactly the amount passed: the children
\* of a split are not counted on top of their parent.
C26_BalanceFollowsAmountsPassed ==
    /\ get_current_balance(treasurerSettings, treasurerRecords)
           = treasurerSettings.starting_balance
    /\ [][/\ call'.op = "add_income" =>
                get_current_balance(treasurerSettings', treasurerRecords')
                    = get_current_balance(treasurerSettings, treasurerRecords)
                          + call'.amount
          /\ call'.op = "add_expense" =>
                get_current_balance(treasurerSettings', treasurerRecords')
                    = get_current_balance(treasurerSettings, treasurerRecords)
                          - call'.amount]_vars

\* An expense was added with a split after an income and a plain expense:
\* the table holds the children next to three parents.
C26_Witness ==
    /\ call.op = "add_expense"
    /\ call.disbursement_split # {}
    /\ Cardinality(call.created) > 1
    /\ \E r \in Entries : r.type = "income"
    /\ Cardinality(Entries) = 3
    /\ Cardinality(treasurerRecords) > Cardinality(Entries)

\* The sum of a sequence of percentages.
RECURSIVE SumSeq(_)
SumSeq(s) == IF s = <<>> THEN 0 ELSE Head(s) + SumSeq(Tail(s))

\* C27: when add_expense is given a split whose percentages total 100, the
\* amounts of the child records it creates sum to the parent's amount.
C27_ChildrenSumToParent ==
    (call.op = "add_expense" /\ call.disbursement_split # {}
        /\ \A s \in call.disbursement_split : SumSeq(s.items) = Hundred)
    => LET children == {r \in treasurerRecords :
                            r.pk \in call.created /\ r.parent_record # NULL}
       IN  SumAmount(children) = call.amount

(***************************************************************************)
(* Concurrent requests inside BlockVariation.save(): the statements of     *)
(* save() are separate queries, each committed on its own (no transaction, *)
(* no lock), so the requests interleave between them.                      *)
(***************************************************************************)
\* The variations three sequential VariationCreateView submissions leave:
\* two in block 1, the first its default, and one in block 2.
SavedVariations ==
    LET row(pk, block, order, is_default) ==
            [pk |-> pk, block |-> block, meeting_type |-> NULL,
             order |-> order, is_default |-> is_default, is_active |-> TRUE]
    IN  save(save(save({}, row(1, 1, 1, TRUE)), row(2, 1, 2, FALSE)),
             row(3, 2, 1, TRUE))

\* VariationUpdateView.post of request r: the row is loaded, the form sets
\* is_default, and form.save() enters BlockVariation.save().
SaveBegin(r, v, is_default) ==
    /\ saving[r].pc = "idle"
    /\ v \in variations
    /\ saving' = [saving EXCEPT ![r] =
                     [pc |-> "unset", form_is_default |-> is_default,
                      self |-> [v EXCEPT !.is_default = is_default]]]
    /\ call' = [op |-> "save", request |-> r, step |-> "begin"]
    /\ UNCHANGED <<registryVars, formatVars, positionVars, treasuryVars,
                   wizardVars>>

\* save(), lines 206-210: if self.is_default, the UPDATE that clears
\* is_default on the block's other default rows.
SaveUnsetOthers(r) ==
    /\ saving[r].pc = "unset"
    /\ LET self == saving[r].self IN
       variations' =
           IF self.is_default
           THEN {IF v.pk # self.pk /\ v.block = self.block /\ v.is_default
                 THEN [v EXCEPT !.is_default = FALSE] ELSE v :
                     v \in variations}
           ELSE variations
    /\ saving' = [saving EXCEPT ![r].pc = "check"]
    /\ call' = [op |-> "save", request |-> r, step |-> "unset"]
    /\ UNCHANGED <<registryVars, typeVars, blocks, schedules, nextPk,
                   positionVars, treasuryVars, wizardVars>>

\* save(), lines 213-219: the SELECT for another default of the block, and
\* the promotion of self when there is none.
SaveCheckDefault(r) ==
    /\ saving[r].pc = "check"
    /\ LET self == saving[r].self
           has_default == \E v \in variations :
                              v.pk # self.pk /\ v.block = self.block
                                  /\ v.is_default
       IN  saving' = [saving EXCEPT
                         ![r].pc = "write",
                         ![r].self.is_default =
                             IF ~has_default THEN TRUE ELSE @]
    /\ call' = [op |-> "save", request |-> r, step |-> "check"]
    /\ UNCHANGED <<registryVars, formatVars, positionVars, treasuryVars,
                   wizardVars>>

\* save(), line 221: super().save() writes the row of self.
SaveWrite(r) ==
    /\ saving[r].pc = "write"
    /\ LET self == saving[r].self IN
       variations' = {v \in variations : v.pk # self.pk} \cup {self}
    /\ saving' = [saving EXCEPT ![r].pc = "done"]
    /\ call' = [op |-> "save", request |-> r, step |-> "write"]
    /\ UNCHANGED <<registryVars, typeVars, blocks, schedules, nextPk,
                   positionVars, treasuryVars, wizardVars>>

\* The response of request r is sent; r is free for the next submission.
SaveReturn(r) ==
    /\ saving[r].pc = "done"
    /\ saving' = [saving EXCEPT ![r] = Idle]
    /\ call' = [op |-> "save", request |-> r, step |-> "return"]
    /\ UNCHANGED <<registryVars, formatVars, positionVars, treasuryVars,
                   wizardVars>>

InitConcurrent ==
    /\ moduleApps = <<>>
    /\ modules = <<>>
    /\ initialized = FALSE
    /\ scans = 0
    /\ registerLog = <<>>
    /\ readyLog = <<>>
    /\ errorLog = <<>>
    /\ call = NoCall
    /\ blocks = BlockRows
    /\ variations = SavedVariations
    /\ schedules = {}
    /\ nextPk = 4
    /\ meetingTypes = MeetingTypeRows
    /\ formatConfig = FormatModuleConfig
    /\ SiteInit

NextConcurrent ==
    \/ \E r \in Requests, v \in variations, d \in BOOLEAN : SaveBegin(r, v, d)
    \/ \E r \in Requests : SaveUnsetOthers(r)
    \/ \E r \in Requests : SaveCheckDefault(r)
    \/ \E r \in Requests : SaveWrite(r)
    \/ \E r \in Requests : SaveReturn(r)

SpecConcurrent == InitConcurrent /\ [][NextConcurrent]_vars

\* C28: when two requests have saved two different variations of the same
\* block, each submitted with is_default = true, and both saves have
\* finished, the block has at most one variation with is_default = true.
C28_AtMostOneDefaultAfterBothSaves ==
    (/\ \A r \in Requests : saving[r].pc = "done"
     /\ \A r \in Requests : saving[r].form_is_default
     /\ saving[1].self.pk # saving[2].self.pk
     /\ saving[1].self.block = saving[2].self.block)
    => Cardinality({v \in variations :
                        v.block = saving[1].self.block /\ v.is_default}) <= 1

(***************************************************************************)
(* The setup wizard: apps/core/views.py (SetupWizardView) and              *)
(* apps/core/middleware.py (SetupWizardMiddleware).                        *)
(***************************************************************************)
\* SetupWizardView.DEFAULT_POSITIONS, the names in order.
DEFAULT_POSITIONS ==
    <<"secretary", "treasurer", "gsr", "literature", "greeter", "coffee">>

\* What a wizard form can post: a skip button or none, the group name typed
\* (empty, blank or a name) and the position boxes ticked.
SetupPosts ==
    [skip : {"none", "skip_later", "skip_forever"},
     meeting_name : {"", " ", "Serenity"},
     positions : {{}, {"secretary", "gsr"}}]

\* str.strip() on the names of SetupPosts
strip(s) == IF s = " " THEN "" ELSE s

\* SetupWizardView.get_step(): session.get('setup_step', 1)
get_step(sess) ==
    IF sess.setup_step = {} THEN 1 ELSE CHOOSE n \in sess.setup_step : TRUE

\* ServicePosition.objects.get_or_create(name=...) for DEFAULT_POSITIONS[i..]
\* whose name is selected.
RECURSIVE create_selected(_, _, _)
create_selected(positions, selected, i) ==
    IF i > Len(DEFAULT_POSITIONS) THEN positions
    ELSE LET name == DEFAULT_POSITIONS[i] IN
         IF name \in selected /\ ~\E p \in positions : p.name = name
         THEN create_selected(
                  positions \cup {[pk |-> Cardinality(positions) + 1,
                                   name |-> name]},
                  selected, i + 1)
         ELSE create_selected(positions, selected, i + 1)

\* SetupWizardView.post with 'skip_later' leaving session['setup_step'] as it
\* is.
setup_post_skip_keeps_step(sess, cfg, positions, post) ==
    LET step == get_step(sess)
        meeting_name == strip(post.meeting_name)
        unchanged == [session |-> sess, config |-> cfg,
                      positions |-> positions, step |-> step]
    IN
    IF post.skip = "skip_later"
    THEN [unchanged EXCEPT !.session = [sess EXCEPT !.setup_skipped = TRUE]]
             @@ [outcome |-> "skipped"]
    ELSE IF post.skip = "skip_forever"
    THEN [unchanged EXCEPT
             !.session = [sess EXCEPT !.setup_step = {}],
             !.config = [cfg EXCEPT !.setup_status = "dismissed"]]
             @@ [outcome |-> "dismissed"]
    ELSE IF step = 1
    THEN IF meeting_name # ""
         THEN [unchanged EXCEPT
                  !.session = [sess EXCEPT !.setup_step = {2}],
                  !.config = [cfg EXCEPT !.meeting_name = meeting_name]]
                  @@ [outcome |-> "name_saved"]
         ELSE unchanged @@ [outcome |-> "name_missing"]
    ELSE IF step = 2
    THEN [unchanged EXCEPT
             !.session = [sess EXCEPT !.setup_step = {}],
             !.config = [cfg EXCEPT !.setup_status = "completed"],
             !.positions = create_selected(positions, post.positions, 1)]
             @@ [outcome |-> "completed"]
    ELSE unchanged @@ [outcome |-> "redirect"]

\* SetupWizardView.post: the session, the MeetingConfig row and the
\* ServicePosition rows after the submission, the step it was handled at and
\* its outcome.
setup_post(sess, cfg, positions, post) ==
    LET step == get_step(sess)
        meeting_name == strip(post.meeting_name)
        unchanged == [session |-> sess, config |-> cfg,
                      positions |-> positions, step |-> step]
    IN
    IF post.skip = "skip_later"
    THEN [unchanged EXCEPT
             !.session = [setup_step |-> {}, setup_skipped |-> TRUE]]
             @@ [outcome |-> "skipped"]
    ELSE IF post.skip = "skip_forever"
    THEN [unchanged EXCEPT
             !.session = [sess EXCEPT !.setup_step = {}],
             !.config = [cfg EXCEPT !.setup_status = "dismissed"]]
             @@ [outcome |-> "dismissed"]
    ELSE IF step = 1
    THEN IF meeting_name # ""
         THEN [unchanged EXCEPT
                  !.session = [sess EXCEPT !.setup_step = {2}],
                  !.config = [cfg EXCEPT !.meeting_name = meeting_name]]
                  @@ [outcome |-> "name_saved"]
         ELSE unchanged @@ [outcome |-> "name_missing"]
    ELSE IF step = 2
    THEN [unchanged EXCEPT
             !.session = [sess EXCEPT !.setup_step = {}],
             !.config = [cfg EXCEPT !.setup_status = "completed"],
             !.positions = create_selected(positions, post.positions, 1)]
             @@ [outcome |-> "completed"]
    ELSE unchanged @@ [outcome |-> "redirect"]

SetupPost(s, post) ==
    LET r == setup_post(session[s], meetingConfig, servicePositions, post) IN
    /\ session' = [session EXCEPT ![s] = r.session]
    /\ meetingConfig' = r.config
    /\ servicePositions' = r.positions
    /\ call' = [op |-> "setup_post", session |-> s, post |-> post,
                step |-> r.step, outcome |-> r.outcome]
    /\ UNCHANGED <<registryVars, formatVars, positionAssignments,
                   pendingAssignment, treasuryVars, saving>>

\* SetupWizardMiddleware.__call__ for a logged-in user's request of a page
\* outside the exempt prefixes: TRUE when it answers with the redirect to
\* the wizard.
middleware_redirects(sess, cfg, url_name) ==
    IF sess.setup_skipped THEN FALSE
    ELSE IF cfg.setup_status \in {"completed", "dismissed"} THEN FALSE
    ELSE IF url_name = "core:setup_wizard" THEN FALSE
    ELSE IF url_name \in {"core:logout", "website:login", "website:home"}
    THEN FALSE
    ELSE TRUE

PageRequest(s, url_name) ==
    /\ call' = [op |-> "page_request", session |-> s, url_name |-> url_name,
                redirected |-> middleware_redirects(session[s], meetingConfig,
                                                    url_name)]
    /\ UNCHANGED <<registryVars, formatVars, siteVars>>

NextWizard ==
    \/ \E s \in Sessions, post \in SetupPosts : SetupPost(s, post)
    \/ \E s \in Sessions, url_name \in {"core:dashboard", "core:setup_wizard"} :
           PageRequest(s, url_name)

SpecWizard == InitPositions /\ [][NextWizard]_vars

\* C29: setup_status becomes 'completed' only in a submission handled at
\* step 2; a session comes to step 2 only in its own submission at step 1,
\* without a skip, of a non-empty group name, which that submission saves;
\* and a skip puts the session back to step 1. Every session starts at
\* step 1, so a completion is preceded by a saved group name.
C29_CompletedOnlyAfterSavedName ==
    /\ \A s \in Sessions : get_step(session[s]) = 1
    /\ [][/\ (meetingConfig'.setup_status = "completed"
                 /\ meetingConfig.setup_status # "completed")
             => /\ call'.op = "setup_post"
                /\ call'.step = 2
                /\ get_step(session[call'.session]) = 2
          /\ \A s \in Sessions :
                (get_step(session'[s]) = 2 /\ get_step(session[s]) # 2)
                => /\ call'.op = "setup_post"
                   /\ call'.session = s
                   /\ call'.step = 1
                   /\ call'.post.skip = "none"
                   /\ strip(call'.post.meeting_name) # ""
                   /\ meetingConfig'.meeting_name
                          = strip(call'.post.meeting_name)
          /\ (call'.op = "setup_post" /\ call'.post.skip # "none")
             => get_step(session'[call'.session]) = 1]_vars

\* One session completed the setup at step 2, under the group name it saved,
\* while the other session had skipped for later.
C29_Witness ==
    /\ call.op = "setup_post"
    /\ call.outcome = "completed"
    /\ call.step = 2
    /\ meetingConfig.setup_status = "completed"
    /\ meetingConfig.meeting_name = "Serenity"
    /\ \E s \in Sessions : s # call.session /\ session[s].setup_skipped

====
